---- MODULE Spec2Model ----
(***************************************************************************)
(* Model of the okta-auth client: the recursive authentication transaction *)
(* state machine (Authenticate, handleAuthUserFlow and the handlers it     *)
(* dispatches to), the push poll loop and sendTransactionRequest.          *)
(*                                                                         *)
(* One authentication attempt is one call chain.  Each function of the     *)
(* client is one action; pc names the function that runs next.  The        *)
(* transport and the prompt callbacks are external: their answers are      *)
(* drawn with \E from the sets below.                                      *)
(***************************************************************************)
EXTENDS Integers, Sequences, FiniteSets, TLC

VARIABLES
    pc,              \* the function about to run, "done" after the return, "panic" after a crash
    transaction,     \* the `transaction` argument (and local) of the running handler
    autoAttemptU2F,  \* the flag handed to handleAuthUserFlow
    factor,          \* startMFA's `factor` argument
    msg,             \* cancelCurrentFactorWithErrorMessage's `msg` argument
    newTransaction,  \* handleFactorTypePush: result of the last poll
    verifyReq,       \* handleFactorTypePush: the FactorVerifyPush request (its StateToken)
    numTries,        \* backoff.WithMaxRetries: retries granted so far
    retryErr,        \* handleFactorTypePush: the error backoff.Retry returned
    ret,             \* what Authenticate returned: [token, err]
    nreq,            \* number of transport requests sent so far
    events,          \* requests and prompt calls since the running handler was entered
    lastOutcome,     \* how the last call of sendTransactionRequest ended (see Outcome)
    dispatched,      \* the last call of handleAuthUserFlow: its transaction, and nreq then
    logs,            \* the messages the last step passed to the DebugLogger (c.log)
    input,           \* a function called on its own: its name and its argument
    output,          \* a function called on its own: what it returned
    client,          \* the OktaClient the attempts are made on: its fields
    running,         \* which of two concurrent attempts has the processor, 0 for a single one
    parked           \* the arguments and locals of the concurrent attempt that is not running

\* The state of an authentication attempt, and the state of a call of one of the
\* functions of the api package on its own.
flowVars == <<pc, transaction, autoAttemptU2F, factor, msg, newTransaction, verifyReq,
              numTries, retryErr, ret, nreq, events, lastOutcome, dispatched, logs>>
funcVars == <<input, output>>
\* The client, shared by the attempts made on it, and the attempt that waits.
clientVars == <<client, running, parked>>

vars == <<pc, transaction, autoAttemptU2F, factor, msg, newTransaction, verifyReq,
          numTries, retryErr, ret, nreq, events, lastOutcome, dispatched, logs,
          input, output, client, running, parked>>

(***************************************************************************)
(* Bounds and program constants                                            *)
(***************************************************************************)
\* The server answers MFA_REQUIRED / MFA_CHALLENGE only to the first MaxFollowUps requests.
MaxFollowUps == 4

\* backoff.WithMaxRetries(backoff.NewConstantBackOff(3*time.Second), 10)
MaxRetries == 10

(***************************************************************************)
(* api/transaction.go: statuses, factor results                            *)
(***************************************************************************)
StateSuccess == "SUCCESS"
StatePasswordWarn == "PASSWORD_WARN"
StatePasswordExpired == "PASSWORD_EXPIRED"
StateRecovery == "RECOVERY"
StateLockedOut == "LOCKED_OUT"
StateMFARequired == "MFA_REQUIRED"
StateMFAChallenge == "MFA_CHALLENGE"
StateMFAEnroll == "MFA_ENROLL"
StateMFAEnrollActivate == "MFA_ENROLL_ACTIVATE"

\* The closed enumeration of api/transaction.go.
TransactionState ==
    {StateSuccess, StatePasswordWarn, StatePasswordExpired, StateRecovery, StateLockedOut,
     StateMFARequired, StateMFAChallenge, StateMFAEnroll, StateMFAEnrollActivate}

\* What a server can put in the status field: the enumeration, nothing, or a string
\* the client does not know.
ServerStatuses == TransactionState \cup {"", "SESSION_STEP_UP"}

FactorResultWaiting == "WAITING"
FactorResultRejected == "REJECTED"

(***************************************************************************)
(* factors: factor kinds                                                   *)
(***************************************************************************)
FactorTypePush == "push"
FactorTypeSMS == "sms"
FactorTypeCall == "call"
FactorTypeU2F == "u2f"
FactorTypeWebAuthN == "webauthn"
FactorTypeToken == "token"
FactorTypeTokenSoftwareTOTP == "token:software:totp"
FactorTypeTokenHardware == "token:hardware"
FactorTypeQuestion == "question"

\* api/factors.go: knownFactors, in its order.
knownFactors ==
    <<FactorTypeU2F, FactorTypeWebAuthN, FactorTypeToken, FactorTypeTokenSoftwareTOTP,
      FactorTypeTokenHardware, FactorTypePush, FactorTypeSMS, FactorTypeCall,
      FactorTypeQuestion>>

\* api/factors.go: indexOfFactorType, 0-based, -1 when absent.
indexOfFactorType(factorType) ==
    IF \E i \in 1..Len(knownFactors) : knownFactors[i] = factorType
    THEN (CHOOSE i \in 1..Len(knownFactors) :
              /\ knownFactors[i] = factorType
              /\ \A j \in 1..(i - 1) : knownFactors[j] # factorType) - 1
    ELSE -1

\* A filter that puts each supported factor in front of the ones found so far.
RECURSIVE SupportedFromPrepend(_, _)
SupportedFromPrepend(f, i) ==
    IF i > Len(f) THEN <<>>
    ELSE IF indexOfFactorType(f[i].FactorType) # -1
         THEN SupportedFromPrepend(f, i + 1) \o <<f[i]>>
         ELSE SupportedFromPrepend(f, i + 1)

\* The loop of SupportedFactors from position i on.
RECURSIVE SupportedFrom(_, _)
SupportedFrom(f, i) ==
    IF i > Len(f) THEN <<>>
    ELSE IF indexOfFactorType(f[i].FactorType) # -1
         THEN <<f[i]>> \o SupportedFrom(f, i + 1)
         ELSE SupportedFrom(f, i + 1)

\* api/factors.go: Factors.SupportedFactors.
SupportedFactors(f) == SupportedFrom(f, 1)

(***************************************************************************)
(* Values: links, factors, transactions, errors                            *)
(***************************************************************************)
\* A Link is the URL the server put in a transaction (txn: which response carried it,
\* rel: which relation).  NoLink is the empty HREF.
NoLink == [txn |-> 0, rel |-> ""]
Link(id, rel) == [txn |-> id, rel |-> rel]

\* api.Factor.  Profile is the tag of the populated profile variant, "nil" when unset.
NoFactor == [Id |-> "", FactorType |-> "", Profile |-> "nil", Verify |-> NoLink]
Factor(id, fid, kind, profile, hasVerify) ==
    [Id |-> fid, FactorType |-> kind, Profile |-> profile,
     Verify |-> IF hasVerify THEN Link(id, fid) ELSE NoLink]

\* api.AuthenticationTransaction{}: the zero value.
EmptyTransaction ==
    [id |-> 0, Status |-> "", StateToken |-> 0, SessionToken |-> 0, FactorResult |-> "",
     Factors |-> <<>>, Factor |-> NoFactor,
     Links |-> [Next |-> NoLink, Prev |-> NoLink, Cancel |-> NoLink]]

\* The transaction decoded from the body of response number id.  Every response
\* carries its own state token, session token and URLs (all derived from id), so
\* that a value taken from the wrong transaction is told apart.
Txn(id, status, hasToken, fr, fs, f, links) ==
    [id |-> id, Status |-> status, StateToken |-> id,
     SessionToken |-> IF hasToken THEN id ELSE 0, FactorResult |-> fr,
     Factors |-> fs, Factor |-> f,
     Links |-> [Next |-> IF "next" \in links THEN Link(id, "next") ELSE NoLink,
                Prev |-> IF "prev" \in links THEN Link(id, "prev") ELSE NoLink,
                Cancel |-> IF "cancel" \in links THEN Link(id, "cancel") ELSE NoLink]]

\* Errors.  type: "nil", "TerminalError", "NonFatalAuthError", "APIError" or "error"
\* (a plain Go error); msg: the message, a sequence of its parts (format string
\* first, then the formatted arguments).
NilError == [type |-> "nil", msg |-> <<>>]
TerminalError(m) == [type |-> "TerminalError", msg |-> m]
NonFatalAuthError(m) == [type |-> "NonFatalAuthError", msg |-> m]
PlainError(m) == [type |-> "error", msg |-> m]

APIError(summary) == [type |-> "APIError", msg |-> summary]

unexpectedErrorMessage == <<"Encountered an unexpected error.">>
timeoutErrorMessage == <<"Authentication Timed Out">>

\* What the collaborators answer with when they fail.
ApiErrorSummary == <<"Invalid token provided">>
TransportErrorMessage == <<"connection refused">>
PromptErrorMessage == <<"aborted by the user">>
PassCode == "123456"

(***************************************************************************)
(* What the server can answer                                              *)
(***************************************************************************)
AllLinks == {"next", "prev", "cancel"}

\* Factor lists of an MFA_REQUIRED transaction (the factors of response id).
FactorLists(id) ==
    { \* scenario A: SMS, U2F, TOTP, all enrolled
      <<Factor(id, "f1", FactorTypeSMS, "SMS", TRUE),
        Factor(id, "f2", FactorTypeU2F, "U2F", TRUE),
        Factor(id, "f3", FactorTypeTokenSoftwareTOTP, "Token", TRUE)>>,
      \* a hardware key that is not enrolled (no profile), and push
      <<Factor(id, "f1", FactorTypeU2F, "nil", TRUE),
        Factor(id, "f2", FactorTypePush, "nil", TRUE)>>,
      \* two hardware keys, with a kind the client does not know in between
      <<Factor(id, "f1", FactorTypeU2F, "U2F", TRUE),
        Factor(id, "f2", "email", "nil", TRUE),
        Factor(id, "f3", FactorTypeU2F, "U2F", TRUE)>>,
      \* push, and a call factor without a verify link
      <<Factor(id, "f1", FactorTypePush, "nil", TRUE),
        Factor(id, "f2", FactorTypeCall, "Call", FALSE)>>,
      \* the kinds left: webauthn, question, token, token:hardware
      <<Factor(id, "f1", FactorTypeWebAuthN, "WebAuthN", TRUE),
        Factor(id, "f2", FactorTypeQuestion, "Question", TRUE),
        Factor(id, "f3", FactorTypeToken, "Token", TRUE),
        Factor(id, "f4", FactorTypeTokenHardware, "Token", TRUE)>>,
      \* nothing the client supports
      <<Factor(id, "f1", "email", "nil", TRUE)>>,
      <<>> }

\* The embedded factor of an MFA_CHALLENGE transaction: kind and decoded profile.
ChallengeFactors ==
    { <<FactorTypeU2F, "U2F">>, <<FactorTypeU2F, "nil">>,
      <<FactorTypeTokenSoftwareTOTP, "Token">>, <<FactorTypeSMS, "SMS">>,
      <<FactorTypeCall, "Call">>, <<FactorTypeToken, "Token">>,
      <<FactorTypeTokenHardware, "Token">>, <<FactorTypePush, "nil">>,
      <<FactorTypeWebAuthN, "WebAuthN">>, <<FactorTypeQuestion, "Question">>,
      <<"email", "nil">> }

\* Transactions whose status ends the flow (or is unknown): no factors, no links.
PlainTransactions(id) ==
    { Txn(id, s, TRUE, "", <<>>, NoFactor, {}) : s \in ServerStatuses \ {StateMFARequired, StateMFAChallenge} }
    \cup { Txn(id, StateSuccess, FALSE, "", <<>>, NoFactor, {}),
           Txn(id, StateSuccess, TRUE, FactorResultRejected, <<>>, NoFactor, AllLinks) }

\* MFA_REQUIRED transactions: a factor list and the cancel link.
RequiredTransactions(id) ==
    { Txn(id, StateMFARequired, FALSE, "", fs, NoFactor, {"cancel"}) : fs \in FactorLists(id) }

\* MFA_CHALLENGE transactions: the factor under challenge, the links, and for a
\* push being polled the factor result.
ChallengeTransactions(id) ==
    { Txn(id, StateMFAChallenge, FALSE, "", <<>>, Factor(id, "f1", k[1], k[2], FALSE), AllLinks) :
          k \in ChallengeFactors }
    \cup { Txn(id, StateMFAChallenge, FALSE, "", <<>>, Factor(id, "f1", k[1], k[2], FALSE), l) :
          k \in {<<FactorTypeTokenSoftwareTOTP, "Token">>, <<FactorTypePush, "nil">>},
          l \in {{"prev", "cancel"}, {"next", "cancel"}} }
    \cup { Txn(id, StateMFAChallenge, FALSE, fr[1], <<>>, Factor(id, "f1", FactorTypePush, "nil", FALSE), fr[2]) :
          fr \in {<<FactorResultWaiting, AllLinks>>, <<FactorResultWaiting, {"next", "prev"}>>,
                  <<FactorResultRejected, AllLinks>>} }

\* What the server answers to a poll of a push: approved (SUCCESS), still waiting,
\* rejected, or the account got locked meanwhile.
PollTransactions(id) ==
    { Txn(id, StateSuccess, TRUE, "", <<>>, NoFactor, {}),
      Txn(id, StateSuccess, TRUE, FactorResultRejected, <<>>, NoFactor, AllLinks),
      Txn(id, StateLockedOut, FALSE, "", <<>>, NoFactor, {}) }
    \cup { Txn(id, StateMFAChallenge, FALSE, fr[1], <<>>, Factor(id, "f1", FactorTypePush, "nil", FALSE), fr[2]) :
          fr \in {<<FactorResultWaiting, AllLinks>>, <<FactorResultWaiting, {"next", "prev"}>>,
                  <<FactorResultRejected, AllLinks>>} }

\* The transactions response number id can carry.  followUp: "yes" when the server
\* may still ask for a second factor (MFA_REQUIRED, MFA_CHALLENGE), "poll" for
\* the answer to a poll.
Transactions(id, followUp) ==
    CASE followUp = "poll" -> PollTransactions(id)
      [] followUp = "yes" ->
           PlainTransactions(id) \cup RequiredTransactions(id) \cup ChallengeTransactions(id)
      [] OTHER -> PlainTransactions(id)

\* Whether the server may still ask for a second factor in response number id.
FollowUp(id) == IF id <= MaxFollowUps THEN "yes" ELSE "no"

(***************************************************************************)
(* The transport: sendRequest                                              *)
(***************************************************************************)
\* HTTP status codes the server answers with.
HttpStatuses == {200, 400, 403, 429, 500}

\* A response body: a transaction, a structured API error, or bytes that are not JSON.
ApiErrorBody == [kind |-> "apiError", transaction |-> EmptyTransaction]
GarbageBody == [kind |-> "garbage", transaction |-> EmptyTransaction]
TransactionBody(t) == [kind |-> "transaction", transaction |-> t]

\* A JSON object with the fields of transaction t and one more field whose value
\* has the wrong type for the struct (a number for a string, a time that does not
\* parse).
MistypedBody(t) == [kind |-> "mistyped", transaction |-> t]

\* sendRequest: (status, body, err).  err is the transport's error.
TransportFailure == [err |-> TRUE, status |-> 0, body |-> GarbageBody]
HttpResponse(status, body) == [err |-> FALSE, status |-> status, body |-> body]

\* The outcomes of sendRequest for request number id to the given URL.  A request
\* to the empty URL never reaches a server: http.Client fails it.
sendRequest(url, id, followUp) ==
    IF url = NoLink
    THEN {TransportFailure}
    ELSE {TransportFailure}
         \cup { HttpResponse(200, TransactionBody(t)) : t \in Transactions(id, followUp) }
         \cup { HttpResponse(s, b) : s \in HttpStatuses, b \in {ApiErrorBody, GarbageBody} }

\* json.Unmarshal(body, &transaction): the error and the value of transaction
\* after the call.  Bytes that are not JSON are refused before anything is stored;
\* a value of the wrong type is an error, but the fields that do decode are stored.
\* An API error body is a JSON object without any transaction field.
UnmarshalTransaction(body) ==
    IF body.kind = "garbage" THEN [ok |-> FALSE, transaction |-> EmptyTransaction]
    ELSE IF body.kind = "mistyped" THEN [ok |-> FALSE, transaction |-> body.transaction]
    ELSE [ok |-> TRUE, transaction |-> body.transaction]

\* json.Unmarshal(body, &apiError): the error and the decoded ErrorSummary.  A
\* transaction body is a JSON object without any APIError field.
UnmarshalAPIError(body) ==
    IF body.kind = "garbage" THEN [ok |-> FALSE, summary |-> <<>>]
    ELSE [ok |-> TRUE, summary |-> IF body.kind = "apiError" THEN ApiErrorSummary ELSE <<"">>]

\* sendTransactionRequest's three results.  apiError is NilError or an APIError.
Result(t, apiError, err) == [transaction |-> t, apiError |-> apiError, err |-> err]

\* Which of its three results a call of sendTransactionRequest set.
Outcome(res) ==
    IF res.err # NilError THEN "err"
    ELSE IF res.apiError # NilError THEN "apiError"
    ELSE "transaction"

\* A sendTransactionRequest without the case for 429: the status is decoded as
\* an API error like any other 4xx.
sendTransactionRequestNoTooMany(r) ==
    IF r.err THEN Result(EmptyTransaction, NilError, TerminalError(TransportErrorMessage))
    ELSE IF r.status = 200
    THEN IF UnmarshalTransaction(r.body).ok
         THEN Result(UnmarshalTransaction(r.body).transaction, NilError, NilError)
         ELSE Result(UnmarshalTransaction(r.body).transaction, NilError,
                     TerminalError(unexpectedErrorMessage))
    ELSE IF r.status >= 400 /\ r.status < 500
    THEN IF UnmarshalAPIError(r.body).ok
         THEN Result(EmptyTransaction, APIError(UnmarshalAPIError(r.body).summary), NilError)
         ELSE Result(EmptyTransaction, NilError, TerminalError(unexpectedErrorMessage))
    ELSE Result(EmptyTransaction, NilError, TerminalError(unexpectedErrorMessage))

\* A sendTransactionRequest that hands back the API error it could not decode
\* together with the terminal error.
sendTransactionRequestBothErrors(r) ==
    IF r.err THEN Result(EmptyTransaction, NilError, TerminalError(TransportErrorMessage))
    ELSE IF r.status = 200
    THEN IF UnmarshalTransaction(r.body).ok
         THEN Result(UnmarshalTransaction(r.body).transaction, NilError, NilError)
         ELSE Result(UnmarshalTransaction(r.body).transaction, NilError,
                     TerminalError(unexpectedErrorMessage))
    ELSE IF r.status = 429
    THEN Result(EmptyTransaction, NilError,
                TerminalError(<<"Too many requests to Okta, try again later">>))
    ELSE IF r.status >= 400 /\ r.status < 500
    THEN IF UnmarshalAPIError(r.body).ok
         THEN Result(EmptyTransaction, APIError(UnmarshalAPIError(r.body).summary), NilError)
         ELSE Result(EmptyTransaction, APIError(UnmarshalAPIError(r.body).summary),
                     TerminalError(unexpectedErrorMessage))
    ELSE Result(EmptyTransaction, NilError, TerminalError(unexpectedErrorMessage))

\* sendTransactionRequest, given what sendRequest returned.
sendTransactionRequest(r) ==
    IF r.err THEN Result(EmptyTransaction, NilError, TerminalError(TransportErrorMessage))
    ELSE IF r.status = 200
    THEN IF UnmarshalTransaction(r.body).ok
         THEN Result(UnmarshalTransaction(r.body).transaction, NilError, NilError)
         ELSE Result(UnmarshalTransaction(r.body).transaction, NilError,
                     TerminalError(unexpectedErrorMessage))
    ELSE IF r.status = 429
    THEN Result(EmptyTransaction, NilError,
                TerminalError(<<"Too many requests to Okta, try again later">>))
    ELSE IF r.status >= 400 /\ r.status < 500
    THEN IF UnmarshalAPIError(r.body).ok
         THEN Result(EmptyTransaction, APIError(UnmarshalAPIError(r.body).summary), NilError)
         ELSE Result(EmptyTransaction, NilError, TerminalError(unexpectedErrorMessage))
    ELSE Result(EmptyTransaction, NilError, TerminalError(unexpectedErrorMessage))

(***************************************************************************)
(* Observations: the requests sent and the prompt callbacks invoked        *)
(***************************************************************************)
\* A POST through sendTransactionRequest: the URL, the StateToken and PassCode of
\* the request, and the request type.
Post(url, stateToken, body, code) ==
    [op |-> "POST", url |-> url, stateToken |-> stateToken, body |-> body, code |-> code,
     arg |-> <<>>, list |-> <<>>, result |-> ""]

\* A call of a Prompts method: its message (PresentUserError), Challenge
\* (CheckU2FPresence, VerifyU2F) or factor list (ChooseFactor, VerifyCode).
Prompt(op, arg, list) ==
    [op |-> op, url |-> NoLink, stateToken |-> 0, body |-> "", code |-> "",
     arg |-> arg, list |-> list, result |-> ""]

\* A call of CheckU2FPresence or ChooseFactor together with what it returned:
\* "true" or "false", the id of the chosen factor or "error".
Answered(op, arg, list, result) ==
    [op |-> op, url |-> NoLink, stateToken |-> 0, body |-> "", code |-> "",
     arg |-> arg, list |-> list, result |-> result]

\* Authenticate: c.domain + "/api/v1/authn"
AuthnURL == Link(0, "/api/v1/authn")

\* A conversion that hands the credential of a hardware key on as a token profile.
apiFactorToPublicFactorKeyAsToken(f) ==
    [Id |-> f.Id, FactorType |-> f.FactorType,
     ProfileQuestion |-> f.Profile = "Question",
     ProfileSMS |-> f.Profile = "SMS",
     ProfileCall |-> f.Profile = "Call",
     ProfileToken |-> f.Profile \in {"Token", "U2F", "WebAuthN"}]

\* apiFactorToPublicFactor: each Profile* field is set (TRUE) or nil (FALSE).
apiFactorToPublicFactor(f) ==
    [Id |-> f.Id, FactorType |-> f.FactorType,
     ProfileQuestion |-> f.Profile = "Question",
     ProfileSMS |-> f.Profile = "SMS",
     ProfileCall |-> f.Profile = "Call",
     ProfileToken |-> f.Profile = "Token"]

\* apiFactorsToPublicFactors
apiFactorsToPublicFactors(facs) == [i \in 1..Len(facs) |-> apiFactorToPublicFactor(facs[i])]

\* A call of prompts.PresentUserError.
IsPresentUserError(e) == e.op = "PresentUserError"

\* How many times a sequence of events called prompts.PresentUserError.
UserErrorsPresented(es) == Cardinality({i \in 1..Len(es) : IsPresentUserError(es[i])})

(***************************************************************************)
(* Logging: what c.log hands to the DebugLogger (a logger is configured)   *)
(***************************************************************************)
\* The credentials Authenticate is called with.
Usernames == {"alice"}
Passwords == {"hunter2", "correct horse"}

\* The request structs handed to sendTransactionRequest: the type, and the values
\* of the fields in declaration order.
AuthenticationRequest(username, password) ==
    [type |-> "AuthenticationRequest", fields |-> <<username, password>>]
FactorVerify(type, stateToken, more) ==
    [type |-> type, fields |-> <<ToString(stateToken)>> \o more]

\* A URL as it is printed.
HREF(url) == <<ToString(url.txn), url.rel>>

\* A log message is the format string followed by the formatted arguments.
\* sendRequest: what it logs for the outcome r.
sendRequestLog(url, r) ==
    << <<"Sending http request %s %s", "POST">> \o HREF(url) >>
    \o (IF r.err
        THEN << <<"Error sending request %s %s: %s", "POST">> \o HREF(url) \o TransportErrorMessage >>
        ELSE << <<"Got http response: status %d, body %q", ToString(r.status), r.body.kind>> >>)

\* sendTransactionRequest: what it logs itself, given what sendRequest returned.
\* %s of an AuthenticationRequest prints the values of its fields.
sendTransactionRequestLog(request, r) ==
    IF r.err
    THEN IF request.type = "AuthenticationRequest"
         THEN << <<"Got error sending transaction request: error: %s">> \o request.fields >>
         ELSE << <<"Got error sending transaction request: request %#+v, error: %s", request.type>>
                    \o request.fields \o TransportErrorMessage >>
    ELSE IF r.status = 200
    THEN IF UnmarshalTransaction(r.body).ok
         THEN <<>>
         ELSE << <<"Got error unmarshaling authentication transaction: body %q, error %s",
                   r.body.kind, "invalid character">> >>
    ELSE IF r.status = 429
    THEN <<>>
    ELSE IF r.status >= 400 /\ r.status < 500
    THEN IF UnmarshalAPIError(r.body).ok
         THEN <<>>
         ELSE << <<"Got error unmarshaling api error: body %q, error %s",
                   r.body.kind, "invalid character">> >>
    ELSE << <<"Got unexpected server status code: body %q, status %d",
              r.body.kind, ToString(r.status)>> >>

\* Everything one call of sendTransactionRequest logs.
RequestLog(url, request, r) == sendRequestLog(url, r) \o sendTransactionRequestLog(request, r)

(***************************************************************************)
(* Constructing a client                                                   *)
(***************************************************************************)
\* ClientConfig.OktaDomain, a string in its parts: scheme, host, path.  The
\* empty string has no parts.
OktaDomains ==
    { <<>>, <<" ">>, <<"test.okta.com">>, <<"https://", "test.okta.com">>,
      <<"http://", "test.okta.com">>, <<"test.okta.com", "/api/v1">>,
      <<"http://", "test.okta.com", "/api/v1">> }

\* ClientConfig: Prompts and DebugLogger are nil or set; the RoundTripper is left out.
ClientConfigs ==
    [OktaDomain : OktaDomains, Prompts : {"nil", "TestPrompts"}, DebugLogger : {"nil", "logger"}]

\* (*OktaClient)(nil)
NilClient == [nil |-> TRUE, domain |-> <<>>, prompts |-> "nil", logger |-> "nil"]

\* A New that does not look at conf.Prompts.
NewWithoutPromptsCheck(conf) ==
    IF conf.OktaDomain = <<>>
    THEN [client |-> NilClient, err |-> PlainError(<<"ClientConfig.OktaDomain can't be blank">>)]
    ELSE [client |-> [nil |-> FALSE, domain |-> <<"https://">> \o conf.OktaDomain,
                      prompts |-> conf.Prompts, logger |-> conf.DebugLogger],
          err |-> NilError]

\* New(conf)
New(conf) ==
    IF conf.OktaDomain = <<>>
    THEN [client |-> NilClient, err |-> PlainError(<<"ClientConfig.OktaDomain can't be blank">>)]
    ELSE IF conf.Prompts = "nil"
    THEN [client |-> NilClient, err |-> PlainError(<<"ClientConfig.Prompts can't be nil">>)]
    ELSE [client |-> [nil |-> FALSE, domain |-> <<"https://">> \o conf.OktaDomain,
                      prompts |-> conf.Prompts, logger |-> conf.DebugLogger],
          err |-> NilError]

(***************************************************************************)
(* Returning and recursing                                                 *)
(***************************************************************************)
Return(token, err) ==
    /\ pc' = "done"
    /\ ret' = [token |-> token, err |-> err]

\* A recursion that leaves auto-select of a hardware key on.
RecurseAutoSelect(t, auto) ==
    /\ pc' = "handleAuthUserFlow"
    /\ transaction' = t
    /\ autoAttemptU2F' = TRUE
    /\ UNCHANGED ret

\* return c.handleAuthUserFlow(t, auto)
Recurse(t, auto) ==
    /\ pc' = "handleAuthUserFlow"
    /\ transaction' = t
    /\ autoAttemptU2F' = auto
    /\ UNCHANGED ret

NoReturn == [token |-> 0, err |-> NilError]

\* A new invocation of the dispatcher: the locals of the handlers that ran before
\* are out of reach.
FreshLocals ==
    /\ factor' = NoFactor
    /\ msg' = <<>>
    /\ newTransaction' = EmptyTransaction
    /\ verifyReq' = [StateToken |-> 0]
    /\ numTries' = 0
    /\ retryErr' = NilError

\* No function is called on its own during an attempt.
NoInput == [fn |-> "", data |-> <<>>]
NoOutput == [returned |-> FALSE]

\* The state of the flow before the function named by start is called.
FlowInit(start) ==
    /\ pc = start
    /\ transaction = EmptyTransaction
    /\ autoAttemptU2F = FALSE
    /\ factor = NoFactor
    /\ msg = <<>>
    /\ newTransaction = EmptyTransaction
    /\ verifyReq = [StateToken |-> 0]
    /\ numTries = 0
    /\ retryErr = NilError
    /\ ret = NoReturn
    /\ nreq = 0
    /\ events = <<>>
    /\ lastOutcome = "none"
    /\ dispatched = [at |-> 0, transaction |-> EmptyTransaction]
    /\ logs = <<>>

\* The client of TestNew: New(ClientConfig{OktaDomain: "test.okta.com", ...}).
TestClient ==
    New([OktaDomain |-> <<"test.okta.com">>, Prompts |-> "TestPrompts",
         DebugLogger |-> "logger"]).client

\* No attempt waits: the attempt is the only one made on the client.
NoAttempt == [pc |-> ""]

\* One attempt is made on the client.
SingleAttempt ==
    /\ client = TestClient
    /\ running = 0
    /\ parked = NoAttempt

\* A client was constructed; Authenticate is about to be called.
Init ==
    /\ FlowInit("Authenticate")
    /\ input = NoInput
    /\ output = NoOutput
    /\ SingleAttempt

(***************************************************************************)
(* Authenticate and the dispatcher                                         *)
(***************************************************************************)
\* Authenticate(username, password)
Authenticate ==
    /\ pc = "Authenticate"
    /\ \E username \in Usernames, password \in Passwords,
          r \in sendRequest(AuthnURL, nreq + 1, FollowUp(nreq + 1)) :
        LET res == sendTransactionRequest(r) IN
        /\ nreq' = nreq + 1
        /\ events' = Append(events, Post(AuthnURL, 0, "AuthenticationRequest", ""))
        /\ lastOutcome' = Outcome(res)
        /\ logs' = << <<"Posting auth request to %q with username %q ">> \o HREF(AuthnURL)
                         \o <<username>> >>
                    \o RequestLog(AuthnURL, AuthenticationRequest(username, password), r)
                    \o (IF res.err = NilError /\ res.apiError # NilError
                        THEN <<res.apiError.msg>> ELSE <<>>)
        /\ IF res.err # NilError
           THEN Return(0, res.err) /\ UNCHANGED <<transaction, autoAttemptU2F>>
           ELSE IF res.apiError # NilError
           THEN Return(0, PlainError(<<"Failed to authenticate">>))
                /\ UNCHANGED <<transaction, autoAttemptU2F>>
           ELSE Recurse(res.transaction, TRUE)
    /\ UNCHANGED <<factor, msg, newTransaction, verifyReq, numTries, retryErr, dispatched>>
    /\ UNCHANGED <<funcVars, clientVars>>

\* The switch of handleAuthUserFlow: what the dispatcher does with a transaction.
\* kind "return": it returns (token, err); kind "call": it calls the handler fn.
handleAuthUserFlowSwitch(t) ==
    CASE t.Status = StateSuccess ->
           [kind |-> "return", token |-> t.SessionToken, err |-> NilError, fn |-> ""]
      [] t.Status = StatePasswordExpired ->
           [kind |-> "return", token |-> 0, fn |-> "",
            err |-> TerminalError(<<"Your password is expired, login to %s to resolve.">>)]
      [] t.Status = StateRecovery ->
           [kind |-> "return", token |-> 0, fn |-> "",
            err |-> TerminalError(<<"Your account is in recovery, login to %s to resolve.">>)]
      [] t.Status = StateLockedOut ->
           [kind |-> "return", token |-> 0, fn |-> "",
            err |-> TerminalError(<<"Your account has been locked, please contact your administrator for assistance.">>)]
      [] t.Status \in {StateMFAEnroll, StateMFAEnrollActivate} ->
           [kind |-> "return", token |-> 0, fn |-> "",
            err |-> TerminalError(<<"You are required to enroll an MFA method, login to %s to resolve.">>)]
      [] t.Status = StateMFARequired ->
           [kind |-> "call", token |-> 0, err |-> NilError, fn |-> "handleMFARequired"]
      [] t.Status = StateMFAChallenge ->
           [kind |-> "call", token |-> 0, err |-> NilError, fn |-> "handleMFAChallenge"]
      [] OTHER ->
           [kind |-> "return", token |-> 0, fn |-> "",
            err |-> TerminalError(<<"Unknown user state %s, contact your administrator for assistance.", t.Status>>)]

\* A dispatcher that hands back the session token together with the error.
SwitchTokenOnError(t) ==
    IF t.Status = StateLockedOut
    THEN [handleAuthUserFlowSwitch(t) EXCEPT !.token = t.SessionToken]
    ELSE handleAuthUserFlowSwitch(t)

\* A dispatcher that sends the enroll statuses to factor selection.
SwitchEnrollSelects(t) ==
    IF t.Status \in {StateMFAEnroll, StateMFAEnrollActivate}
    THEN [kind |-> "call", token |-> 0, err |-> NilError, fn |-> "handleMFARequired"]
    ELSE handleAuthUserFlowSwitch(t)

\* A dispatcher that takes PASSWORD_WARN for a success.
SwitchWarnSucceeds(t) ==
    IF t.Status = StatePasswordWarn
    THEN [kind |-> "return", token |-> t.SessionToken, err |-> NilError, fn |-> ""]
    ELSE handleAuthUserFlowSwitch(t)

\* switch transaction.Status { ... }: the branch handleAuthUserFlow takes.
switchStatus(t) == handleAuthUserFlowSwitch(t)

\* handleAuthUserFlow(transaction, autoAttemptU2F)
handleAuthUserFlow ==
    /\ pc = "handleAuthUserFlow"
    /\ LET sw == switchStatus(transaction) IN
       IF sw.kind = "return"
       THEN Return(sw.token, sw.err) /\ UNCHANGED events
       ELSE pc' = sw.fn /\ events' = <<>> /\ UNCHANGED ret
    /\ FreshLocals
    /\ dispatched' = [at |-> nreq, transaction |-> transaction]
    /\ logs' = << <<"Handling auth user flow: status %q", transaction.Status>> >>
    /\ UNCHANGED <<transaction, autoAttemptU2F, nreq, lastOutcome>>
    /\ UNCHANGED <<funcVars, clientVars>>

(***************************************************************************)
(* Factor selection                                                        *)
(***************************************************************************)
\* Presence checks that pass the nonce of a challenge along.
PresenceChecksWithChallenge(supported, n, found) ==
    LET count == Cardinality({j \in 1..n : supported[j].FactorType = FactorTypeU2F}) IN
    [i \in 1..count |->
        Answered("CheckU2FPresence", <<"nonce">>, <<>>,
                 IF found /\ i = count THEN "true" ELSE "false")]

\* The calls of CheckU2FPresence the loop of handleMFARequired makes for the
\* hardware-key factors among supported[1..n], each with an empty Challenge; the
\* last one answers true when found, every other one false.
PresenceChecks(supported, n, found) ==
    LET count == Cardinality({j \in 1..n : supported[j].FactorType = FactorTypeU2F}) IN
    [i \in 1..count |->
        Answered("CheckU2FPresence", <<"">>, <<>>,
                 IF found /\ i = count THEN "true" ELSE "false")]

\* The loop of handleMFARequired gets as far as supported[k] (k = Len + 1: past the
\* end): every hardware-key factor before it had its profile asserted to be a
\* FactorProfileU2F and its presence check answered false.
LoopReaches(supported, k, auto) ==
    \A j \in 1..(k - 1) :
        (supported[j].FactorType = FactorTypeU2F /\ auto) => supported[j].Profile = "U2F"

\* A lookup that falls back to the first supported factor when the chosen id
\* matches none.
FindFactorOrFirst(supported, id) ==
    IF \E i \in 1..Len(supported) : supported[i].Id = id
    THEN supported[CHOOSE i \in 1..Len(supported) :
                      /\ supported[i].Id = id
                      /\ \A j \in 1..(i - 1) : supported[j].Id # id]
    ELSE supported[1]

\* The first supported factor with the chosen id, NoFactor when there is none.
FindFactor(supported, id) ==
    IF \E i \in 1..Len(supported) : supported[i].Id = id
    THEN supported[CHOOSE i \in 1..Len(supported) :
                      /\ supported[i].Id = id
                      /\ \A j \in 1..(i - 1) : supported[j].Id # id]
    ELSE NoFactor

\* What ChooseFactor can answer: one of the offered ids, an id that was not
\* offered, or an error.
ChooseFactorAnswers(supported) ==
    {supported[i].Id : i \in 1..Len(supported)} \cup {"f9", "error"}

\* A handleMFARequired that asks again when ChooseFactor returns an error.
handleMFARequiredAsksAgain ==
    /\ pc = "handleMFARequired"
    /\ LET supported == SupportedFactors(transaction.Factors) IN
       IF Len(supported) = 0
       THEN /\ Return(0, TerminalError(<<"No supported MFA types found">>))
            /\ UNCHANGED <<events, factor>>
       ELSE \E k \in 1..(Len(supported) + 1) :
            /\ LoopReaches(supported, k, autoAttemptU2F)
            /\ IF k <= Len(supported)
               THEN \* the loop ends at supported[k]: a hardware key with auto-select on
                    /\ supported[k].FactorType = FactorTypeU2F
                    /\ autoAttemptU2F
                    /\ IF supported[k].Profile # "U2F"
                       THEN \* factor.Profile.(api.FactorProfileU2F) panics
                            /\ pc' = "panic"
                            /\ events' = events \o PresenceChecks(supported, k - 1, FALSE)
                            /\ UNCHANGED <<factor, ret>>
                       ELSE \* CheckU2FPresence answered true
                            /\ pc' = "startMFA"
                            /\ factor' = supported[k]
                            /\ events' = events \o PresenceChecks(supported, k, TRUE)
                            /\ UNCHANGED ret
               ELSE \* no hardware key was picked: ask the user
                    \E answer \in ChooseFactorAnswers(supported) :
                    /\ events' = events
                                 \o (IF autoAttemptU2F
                                     THEN PresenceChecks(supported, Len(supported), FALSE) ELSE <<>>)
                                 \o <<Answered("ChooseFactor", <<>>, apiFactorsToPublicFactors(supported),
                                              answer)>>
                    /\ IF answer = "error"
                       THEN pc' = "handleMFARequired" /\ UNCHANGED <<factor, ret>>
                       ELSE IF FindFactor(supported, answer) # NoFactor
                       THEN /\ pc' = "startMFA"
                            /\ factor' = FindFactor(supported, answer)
                            /\ UNCHANGED ret
                       ELSE /\ Return(0, TerminalError(<<"Factor with id %q was not found", answer>>))
                            /\ UNCHANGED factor
    /\ logs' = <<>>
    /\ UNCHANGED <<transaction, autoAttemptU2F, msg, newTransaction, verifyReq, numTries,
                   retryErr, nreq, lastOutcome, dispatched>>
    /\ UNCHANGED <<funcVars, clientVars>>

\* handleMFARequired(transaction, autoAttemptU2F)
handleMFARequired ==
    /\ pc = "handleMFARequired"
    /\ LET supported == SupportedFactors(transaction.Factors) IN
       IF Len(supported) = 0
       THEN /\ Return(0, TerminalError(<<"No supported MFA types found">>))
            /\ UNCHANGED <<events, factor>>
       ELSE \E k \in 1..(Len(supported) + 1) :
            /\ LoopReaches(supported, k, autoAttemptU2F)
            /\ IF k <= Len(supported)
               THEN \* the loop ends at supported[k]: a hardware key with auto-select on
                    /\ supported[k].FactorType = FactorTypeU2F
                    /\ autoAttemptU2F
                    /\ IF supported[k].Profile # "U2F"
                       THEN \* factor.Profile.(api.FactorProfileU2F) panics
                            /\ pc' = "panic"
                            /\ events' = events \o PresenceChecks(supported, k - 1, FALSE)
                            /\ UNCHANGED <<factor, ret>>
                       ELSE \* CheckU2FPresence answered true
                            /\ pc' = "startMFA"
                            /\ factor' = supported[k]
                            /\ events' = events \o PresenceChecks(supported, k, TRUE)
                            /\ UNCHANGED ret
               ELSE \* no hardware key was picked: ask the user
                    \E answer \in ChooseFactorAnswers(supported) :
                    /\ events' = events
                                 \o (IF autoAttemptU2F
                                     THEN PresenceChecks(supported, Len(supported), FALSE) ELSE <<>>)
                                 \o <<Answered("ChooseFactor", <<>>, apiFactorsToPublicFactors(supported),
                                              answer)>>
                    /\ IF answer = "error"
                       THEN Return(0, PlainError(PromptErrorMessage)) /\ UNCHANGED factor
                       ELSE IF FindFactor(supported, answer) # NoFactor
                       THEN /\ pc' = "startMFA"
                            /\ factor' = FindFactor(supported, answer)
                            /\ UNCHANGED ret
                       ELSE /\ Return(0, TerminalError(<<"Factor with id %q was not found", answer>>))
                            /\ UNCHANGED factor
    /\ logs' = <<>>
    /\ UNCHANGED <<transaction, autoAttemptU2F, msg, newTransaction, verifyReq, numTries,
                   retryErr, nreq, lastOutcome, dispatched>>
    /\ UNCHANGED <<funcVars, clientVars>>

\* startMFA(transaction, factor)
startMFA ==
    /\ pc = "startMFA"
    /\ \E r \in sendRequest(factor.Verify, nreq + 1, FollowUp(nreq + 1)) :
        LET res == sendTransactionRequest(r)
            sent == Append(events, Post(factor.Verify, transaction.StateToken, "FactorVerify", ""))
        IN
        /\ nreq' = nreq + 1
        /\ lastOutcome' = Outcome(res)
        /\ logs' = RequestLog(factor.Verify,
                               FactorVerify("FactorVerify", transaction.StateToken, <<>>), r)
        /\ IF res.err # NilError
           THEN /\ Return(0, res.err)
                /\ events' = sent
                /\ UNCHANGED <<transaction, autoAttemptU2F>>
           ELSE /\ events' = IF res.apiError # NilError
                             THEN Append(sent, Prompt("PresentUserError",
                                      <<"Got error trying to use MFA %s: %s", factor.FactorType>>
                                          \o res.apiError.msg, <<>>))
                             ELSE sent
                /\ Recurse(res.transaction, FALSE)
    /\ UNCHANGED <<factor, msg, newTransaction, verifyReq, numTries, retryErr, dispatched>>
    /\ UNCHANGED <<funcVars, clientVars>>

(***************************************************************************)
(* Cancelling the current factor                                           *)
(***************************************************************************)
\* A cancelCurrentFactorWithErrorMessage that cancels without showing the message.
cancelCurrentFactorWithoutErrorMessage ==
    /\ pc = "cancelCurrentFactorWithErrorMessage"
    /\ events' = events
    /\ pc' = "cancelCurrentFactor"
    /\ logs' = <<>>
    /\ UNCHANGED <<transaction, autoAttemptU2F, factor, msg, newTransaction, verifyReq,
                   numTries, retryErr, ret, nreq, lastOutcome, dispatched>>
    /\ UNCHANGED <<funcVars, clientVars>>

\* cancelCurrentFactorWithErrorMessage(transaction, msg)
cancelCurrentFactorWithErrorMessage ==
    /\ pc = "cancelCurrentFactorWithErrorMessage"
    /\ events' = Append(events, Prompt("PresentUserError", msg, <<>>))
    /\ pc' = "cancelCurrentFactor"
    /\ logs' = <<>>
    /\ UNCHANGED <<transaction, autoAttemptU2F, factor, msg, newTransaction, verifyReq,
                   numTries, retryErr, ret, nreq, lastOutcome, dispatched>>
    /\ UNCHANGED <<funcVars, clientVars>>

\* A cancelCurrentFactor that goes on with the transaction it was given instead of
\* the one the server answered with.
cancelCurrentFactorSameTransaction ==
    /\ pc = "cancelCurrentFactor"
    /\ \E r \in sendRequest(transaction.Links.Prev, nreq + 1, FollowUp(nreq + 1)) :
        LET res == sendTransactionRequest(r) IN
        /\ nreq' = nreq + 1
        /\ lastOutcome' = Outcome(res)
        /\ events' = Append(events, Post(transaction.Links.Prev, transaction.StateToken,
                                         "FactorVerify", ""))
        /\ logs' = RequestLog(transaction.Links.Prev,
                               FactorVerify("FactorVerify", transaction.StateToken, <<>>), r)
                    \o (IF res.err = NilError /\ res.apiError # NilError
                        THEN << <<"Got error trying to cancel MFA factor: uri %q, error: %q">>
                                   \o HREF(transaction.Links.Prev) \o res.apiError.msg >>
                        ELSE <<>>)
        /\ IF res.err # NilError
           THEN Return(0, res.err) /\ UNCHANGED <<transaction, autoAttemptU2F>>
           ELSE IF res.apiError # NilError
           THEN Return(0, TerminalError(unexpectedErrorMessage))
                /\ UNCHANGED <<transaction, autoAttemptU2F>>
           ELSE Recurse(transaction, FALSE)
    /\ UNCHANGED <<factor, msg, newTransaction, verifyReq, numTries, retryErr, dispatched>>
    /\ UNCHANGED <<funcVars, clientVars>>

\* A cancelCurrentFactor that does not look at the API error of its POST and goes
\* on with the transaction it got, as startMFA does.
cancelCurrentFactorIgnoresRejection ==
    /\ pc = "cancelCurrentFactor"
    /\ \E r \in sendRequest(transaction.Links.Prev, nreq + 1, FollowUp(nreq + 1)) :
        LET res == sendTransactionRequest(r) IN
        /\ nreq' = nreq + 1
        /\ lastOutcome' = Outcome(res)
        /\ events' = Append(events, Post(transaction.Links.Prev, transaction.StateToken,
                                         "FactorVerify", ""))
        /\ logs' = RequestLog(transaction.Links.Prev,
                               FactorVerify("FactorVerify", transaction.StateToken, <<>>), r)
                    \o (IF res.err = NilError /\ res.apiError # NilError
                        THEN << <<"Got error trying to cancel MFA factor: uri %q, error: %q">>
                                   \o HREF(transaction.Links.Prev) \o res.apiError.msg >>
                        ELSE <<>>)
        /\ IF res.err # NilError
           THEN Return(0, res.err) /\ UNCHANGED <<transaction, autoAttemptU2F>>
           ELSE Recurse(res.transaction, FALSE)
    /\ UNCHANGED <<factor, msg, newTransaction, verifyReq, numTries, retryErr, dispatched>>
    /\ UNCHANGED <<funcVars, clientVars>>

\* cancelCurrentFactor(transaction)
cancelCurrentFactor ==
    /\ pc = "cancelCurrentFactor"
    /\ \E r \in sendRequest(transaction.Links.Prev, nreq + 1, FollowUp(nreq + 1)) :
        LET res == sendTransactionRequest(r) IN
        /\ nreq' = nreq + 1
        /\ lastOutcome' = Outcome(res)
        /\ events' = Append(events, Post(transaction.Links.Prev, transaction.StateToken,
                                         "FactorVerify", ""))
        /\ logs' = RequestLog(transaction.Links.Prev,
                               FactorVerify("FactorVerify", transaction.StateToken, <<>>), r)
                    \o (IF res.err = NilError /\ res.apiError # NilError
                        THEN << <<"Got error trying to cancel MFA factor: uri %q, error: %q">>
                                   \o HREF(transaction.Links.Prev) \o res.apiError.msg >>
                        ELSE <<>>)
        /\ IF res.err # NilError
           THEN Return(0, res.err) /\ UNCHANGED <<transaction, autoAttemptU2F>>
           ELSE IF res.apiError # NilError
           THEN Return(0, TerminalError(unexpectedErrorMessage))
                /\ UNCHANGED <<transaction, autoAttemptU2F>>
           ELSE Recurse(res.transaction, FALSE)
    /\ UNCHANGED <<factor, msg, newTransaction, verifyReq, numTries, retryErr, dispatched>>
    /\ UNCHANGED <<funcVars, clientVars>>

(***************************************************************************)
(* Factor challenge                                                        *)
(***************************************************************************)
\* The switch of handleMFAChallenge: the handler for a factor kind, "" for the
\* default branch.
handleMFAChallengeSwitch(factorType) ==
    CASE factorType = FactorTypeU2F -> "handleFactorTypeU2F"
      [] factorType \in {FactorTypeTokenSoftwareTOTP, FactorTypeSMS, FactorTypeCall} ->
           "handleFactorTypeCode"
      [] factorType = FactorTypePush -> "handleFactorTypePush"
      [] OTHER -> ""

\* handleMFAChallenge(transaction)
handleMFAChallenge ==
    /\ pc = "handleMFAChallenge"
    /\ LET fn == handleMFAChallengeSwitch(transaction.Factor.FactorType) IN
       IF fn # ""
       THEN pc' = fn /\ UNCHANGED msg
       ELSE /\ pc' = "cancelCurrentFactorWithErrorMessage"
            /\ msg' = <<"Sorry, that factor is not supported yet.">>
    /\ logs' = <<>>
    /\ UNCHANGED <<transaction, autoAttemptU2F, factor, newTransaction, verifyReq, numTries,
                   retryErr, ret, nreq, events, lastOutcome, dispatched>>
    /\ UNCHANGED <<funcVars, clientVars>>

\* A handler that cancels the factor when the next POST fails in transport, as
\* the push handler does.
AfterNextCancelsOnError(res) ==
    /\ lastOutcome' = Outcome(res)
    /\ IF res.err # NilError
       THEN /\ pc' = "cancelCurrentFactorWithErrorMessage"
            /\ msg' = <<"Cancelled">>
            /\ UNCHANGED <<transaction, autoAttemptU2F, ret>>
       ELSE IF res.apiError # NilError
       THEN /\ pc' = "cancelCurrentFactorWithErrorMessage"
            /\ msg' = res.apiError.msg
            /\ UNCHANGED <<transaction, autoAttemptU2F, ret>>
       ELSE Recurse(res.transaction, FALSE) /\ UNCHANGED msg

\* A handler that returns the server's rejection of the next POST to the caller
\* as it is, an *api.APIError.
AfterNextReturnsAPIError(res) ==
    /\ lastOutcome' = Outcome(res)
    /\ IF res.err # NilError
       THEN Return(0, res.err) /\ UNCHANGED <<transaction, autoAttemptU2F, msg>>
       ELSE IF res.apiError # NilError
       THEN Return(0, res.apiError) /\ UNCHANGED <<transaction, autoAttemptU2F, msg>>
       ELSE Recurse(res.transaction, FALSE) /\ UNCHANGED msg

\* A handler that returns the server's rejection of the next POST to the caller
\* as a NonFatalAuthError.
AfterNextNonFatal(res) ==
    /\ lastOutcome' = Outcome(res)
    /\ IF res.err # NilError
       THEN Return(0, res.err) /\ UNCHANGED <<transaction, autoAttemptU2F, msg>>
       ELSE IF res.apiError # NilError
       THEN Return(0, NonFatalAuthError(res.apiError.msg))
            /\ UNCHANGED <<transaction, autoAttemptU2F, msg>>
       ELSE Recurse(res.transaction, FALSE) /\ UNCHANGED msg

\* What follows the POST to the next link in handleFactorTypeU2F and
\* handleFactorTypeCode: return the error, cancel with the server's message, or
\* recurse on the new transaction.
AfterNext(res) ==
    /\ lastOutcome' = Outcome(res)
    /\ IF res.err # NilError
       THEN Return(0, res.err) /\ UNCHANGED <<transaction, autoAttemptU2F, msg>>
       ELSE IF res.apiError # NilError
       THEN /\ pc' = "cancelCurrentFactorWithErrorMessage"
            /\ msg' = res.apiError.msg
            /\ UNCHANGED <<transaction, autoAttemptU2F, ret>>
       ELSE Recurse(res.transaction, FALSE) /\ UNCHANGED msg

\* A handleFactorTypeU2F that asserts the profile to be a FactorProfileU2F without
\* the comma-ok form, as the loop of handleMFARequired does.
handleFactorTypeU2FAssertsProfile ==
    /\ pc = "handleFactorTypeU2F"
    /\ IF transaction.Factor.Profile # "U2F"
       THEN /\ pc' = "panic"
            /\ logs' = <<>>
            /\ UNCHANGED <<transaction, autoAttemptU2F, msg, ret, nreq, events, lastOutcome>>
       ELSE \E verified \in BOOLEAN :
            LET called == Append(events, Prompt("VerifyU2F", <<"nonce">>, <<>>)) IN
            IF ~verified
            THEN /\ events' = Append(called, Prompt("PresentUserError",
                                  <<"Failed to authenticate: %s\n">> \o PromptErrorMessage, <<>>))
                 /\ pc' = "cancelCurrentFactor"
                 /\ logs' = <<>>
                 /\ UNCHANGED <<transaction, autoAttemptU2F, msg, ret, nreq, lastOutcome>>
            ELSE \E r \in sendRequest(transaction.Links.Next, nreq + 1, FollowUp(nreq + 1)) :
                 /\ nreq' = nreq + 1
                 /\ events' = Append(called, Post(transaction.Links.Next, transaction.StateToken,
                                                  "FactorVerifyU2F", ""))
                 /\ logs' = RequestLog(transaction.Links.Next,
                                        FactorVerify("FactorVerifyU2F", transaction.StateToken,
                                                     <<"clientData", "signatureData">>), r)
                 /\ AfterNext(sendTransactionRequest(r))
    /\ UNCHANGED <<factor, newTransaction, verifyReq, numTries, retryErr, dispatched>>
    /\ UNCHANGED <<funcVars, clientVars>>

\* handleFactorTypeU2F(transaction)
handleFactorTypeU2F ==
    /\ pc = "handleFactorTypeU2F"
    /\ IF transaction.Factor.Profile # "U2F"
       THEN /\ pc' = "cancelCurrentFactorWithErrorMessage"
            /\ msg' = unexpectedErrorMessage
            /\ logs' = << <<"Profile was not of type FactorProfileU2F: %s",
                            transaction.Factor.Profile>> >>
            /\ UNCHANGED <<transaction, autoAttemptU2F, ret, nreq, events, lastOutcome>>
       ELSE \E verified \in BOOLEAN :
            LET called == Append(events, Prompt("VerifyU2F", <<"nonce">>, <<>>)) IN
            IF ~verified
            THEN /\ events' = Append(called, Prompt("PresentUserError",
                                  <<"Failed to authenticate: %s\n">> \o PromptErrorMessage, <<>>))
                 /\ pc' = "cancelCurrentFactor"
                 /\ logs' = <<>>
                 /\ UNCHANGED <<transaction, autoAttemptU2F, msg, ret, nreq, lastOutcome>>
            ELSE \E r \in sendRequest(transaction.Links.Next, nreq + 1, FollowUp(nreq + 1)) :
                 /\ nreq' = nreq + 1
                 /\ events' = Append(called, Post(transaction.Links.Next, transaction.StateToken,
                                                  "FactorVerifyU2F", ""))
                 /\ logs' = RequestLog(transaction.Links.Next,
                                        FactorVerify("FactorVerifyU2F", transaction.StateToken,
                                                     <<"clientData", "signatureData">>), r)
                 /\ AfterNext(sendTransactionRequest(r))
    /\ UNCHANGED <<factor, newTransaction, verifyReq, numTries, retryErr, dispatched>>
    /\ UNCHANGED <<funcVars, clientVars>>

\* A handleFactorTypeCode that leaves the code the user entered out of the request.
handleFactorTypeCodeWithoutPassCode ==
    /\ pc = "handleFactorTypeCode"
    /\ \E entered \in BOOLEAN :
        LET called == Append(events, Prompt("VerifyCode", <<>>,
                                 <<apiFactorToPublicFactor(transaction.Factor)>>)) IN
        IF ~entered
        THEN /\ events' = called
             /\ pc' = "cancelCurrentFactorWithErrorMessage"
             /\ msg' = <<"Cancelled">>
             /\ logs' = <<>>
             /\ UNCHANGED <<transaction, autoAttemptU2F, ret, nreq, lastOutcome>>
        ELSE \E r \in sendRequest(transaction.Links.Next, nreq + 1, FollowUp(nreq + 1)) :
             /\ nreq' = nreq + 1
             /\ events' = Append(called, Post(transaction.Links.Next, transaction.StateToken,
                                              "FactorVerifyCode", ""))
             /\ logs' = RequestLog(transaction.Links.Next,
                                    FactorVerify("FactorVerifyCode", transaction.StateToken,
                                                 <<PassCode>>), r)
             /\ AfterNext(sendTransactionRequest(r))
    /\ UNCHANGED <<factor, newTransaction, verifyReq, numTries, retryErr, dispatched>>
    /\ UNCHANGED <<funcVars, clientVars>>

\* handleFactorTypeCode(transaction)
handleFactorTypeCode ==
    /\ pc = "handleFactorTypeCode"
    /\ \E entered \in BOOLEAN :
        LET called == Append(events, Prompt("VerifyCode", <<>>,
                                 <<apiFactorToPublicFactor(transaction.Factor)>>)) IN
        IF ~entered
        THEN /\ events' = called
             /\ pc' = "cancelCurrentFactorWithErrorMessage"
             /\ msg' = <<"Cancelled">>
             /\ logs' = <<>>
             /\ UNCHANGED <<transaction, autoAttemptU2F, ret, nreq, lastOutcome>>
        ELSE \E r \in sendRequest(transaction.Links.Next, nreq + 1, FollowUp(nreq + 1)) :
             /\ nreq' = nreq + 1
             /\ events' = Append(called, Post(transaction.Links.Next, transaction.StateToken,
                                              "FactorVerifyCode", PassCode))
             /\ logs' = RequestLog(transaction.Links.Next,
                                    FactorVerify("FactorVerifyCode", transaction.StateToken,
                                                 <<PassCode>>), r)
             /\ AfterNext(sendTransactionRequest(r))
    /\ UNCHANGED <<factor, newTransaction, verifyReq, numTries, retryErr, dispatched>>
    /\ UNCHANGED <<funcVars, clientVars>>

\* A handleFactorTypePush that tells the user a push was sent before it sends it.
handleFactorTypePushNotifiesFirst ==
    /\ pc = "handleFactorTypePush"
    /\ \E r \in sendRequest(transaction.Links.Next, nreq + 1, FollowUp(nreq + 1)) :
        LET res == sendTransactionRequest(r)
            sent == events \o <<Prompt("VerifyPush", <<>>, <<>>),
                                Post(transaction.Links.Next, transaction.StateToken,
                                     "FactorVerifyPush", "")>>
        IN
        /\ nreq' = nreq + 1
        /\ lastOutcome' = Outcome(res)
        /\ verifyReq' = [StateToken |-> transaction.StateToken]
        /\ transaction' = res.transaction
        /\ logs' = RequestLog(transaction.Links.Next,
                               FactorVerify("FactorVerifyPush", transaction.StateToken, <<>>), r)
        /\ IF res.err # NilError
           THEN /\ pc' = "cancelCurrentFactorWithErrorMessage"
                /\ msg' = <<"Cancelled">>
                /\ events' = sent
           ELSE IF res.apiError # NilError
           THEN /\ pc' = "cancelCurrentFactorWithErrorMessage"
                /\ msg' = res.apiError.msg
                /\ events' = sent
           ELSE /\ pc' = "operation"
                /\ events' = sent
                /\ UNCHANGED msg
    /\ numTries' = 0
    /\ UNCHANGED <<autoAttemptU2F, factor, newTransaction, retryErr, ret, dispatched>>
    /\ UNCHANGED <<funcVars, clientVars>>

(***************************************************************************)
(* Push                                                                    *)
(***************************************************************************)
\* handleFactorTypePush(transaction), up to the call of backoff.Retry.  The
\* result of the dispatch POST is assigned to `transaction` itself.
handleFactorTypePush ==
    /\ pc = "handleFactorTypePush"
    /\ \E r \in sendRequest(transaction.Links.Next, nreq + 1, FollowUp(nreq + 1)) :
        LET res == sendTransactionRequest(r)
            sent == Append(events, Post(transaction.Links.Next, transaction.StateToken,
                                        "FactorVerifyPush", ""))
        IN
        /\ nreq' = nreq + 1
        /\ lastOutcome' = Outcome(res)
        /\ verifyReq' = [StateToken |-> transaction.StateToken]
        /\ transaction' = res.transaction
        /\ logs' = RequestLog(transaction.Links.Next,
                               FactorVerify("FactorVerifyPush", transaction.StateToken, <<>>), r)
        /\ IF res.err # NilError
           THEN /\ pc' = "cancelCurrentFactorWithErrorMessage"
                /\ msg' = <<"Cancelled">>
                /\ events' = sent
           ELSE IF res.apiError # NilError
           THEN /\ pc' = "cancelCurrentFactorWithErrorMessage"
                /\ msg' = res.apiError.msg
                /\ events' = sent
           ELSE /\ pc' = "operation"
                /\ events' = Append(sent, Prompt("VerifyPush", <<>>, <<>>))
                /\ UNCHANGED msg
    /\ numTries' = 0
    /\ UNCHANGED <<autoAttemptU2F, factor, newTransaction, retryErr, ret, dispatched>>
    /\ UNCHANGED <<funcVars, clientVars>>

\* An `operation` that takes a poll answer without a factor result for an approval.
operationErrorNoResultSucceeds(res) ==
    IF res.err # NilError THEN [permanent |-> TRUE, err |-> res.err]
    ELSE IF res.apiError # NilError THEN [permanent |-> TRUE, err |-> res.apiError]
    ELSE IF res.transaction.Status = StateSuccess \/ res.transaction.FactorResult = ""
    THEN [permanent |-> FALSE, err |-> NilError]
    ELSE IF res.transaction.FactorResult = FactorResultRejected
    THEN [permanent |-> TRUE, err |-> NonFatalAuthError(<<"Authentication Rejected">>)]
    ELSE [permanent |-> FALSE, err |-> NonFatalAuthError(timeoutErrorMessage)]

\* An `operation` that forgets backoff.Permanent on a rejection.
operationErrorRetriesRejected(res) ==
    IF res.err # NilError THEN [permanent |-> TRUE, err |-> res.err]
    ELSE IF res.apiError # NilError THEN [permanent |-> TRUE, err |-> res.apiError]
    ELSE IF res.transaction.Status = StateSuccess THEN [permanent |-> FALSE, err |-> NilError]
    ELSE IF res.transaction.FactorResult = FactorResultRejected
    THEN [permanent |-> FALSE, err |-> NonFatalAuthError(<<"Authentication Rejected">>)]
    ELSE [permanent |-> FALSE, err |-> NonFatalAuthError(timeoutErrorMessage)]

\* The error one run of `operation` returns, given the result of its poll:
\* permanent (backoff.Permanent) or not, and the error.
operationError(res) ==
    IF res.err # NilError THEN [permanent |-> TRUE, err |-> res.err]
    ELSE IF res.apiError # NilError THEN [permanent |-> TRUE, err |-> res.apiError]
    ELSE IF res.transaction.Status = StateSuccess THEN [permanent |-> FALSE, err |-> NilError]
    ELSE IF res.transaction.FactorResult = FactorResultRejected
    THEN [permanent |-> TRUE, err |-> NonFatalAuthError(<<"Authentication Rejected">>)]
    ELSE [permanent |-> FALSE, err |-> NonFatalAuthError(timeoutErrorMessage)]

\* backoff.WithMaxRetries: NextBackOff returns Stop once it has granted maxTries
\* retries.
NextBackOffStops(tries) == MaxRetries <= tries

\* An `operation` that keeps the answer to its poll in a field of the client.
operationKeepsResultOnClient ==
    /\ pc = "operation"
    /\ \E r \in sendRequest(transaction.Links.Next, nreq + 1, "poll") :
        LET res == sendTransactionRequest(r)
            e == operationError(res)
        IN
        /\ nreq' = nreq + 1
        /\ events' = Append(events, Post(transaction.Links.Next, verifyReq.StateToken,
                                         "FactorVerifyPush", ""))
        /\ newTransaction' = res.transaction
        /\ lastOutcome' = Outcome(res)
        /\ logs' = RequestLog(transaction.Links.Next,
                               FactorVerify("FactorVerifyPush", verifyReq.StateToken, <<>>), r)
        /\ IF e.err = NilError \/ e.permanent \/ NextBackOffStops(numTries)
           THEN /\ retryErr' = e.err
                /\ pc' = "afterRetry"
                /\ UNCHANGED numTries
           ELSE /\ numTries' = numTries + 1
                /\ UNCHANGED <<pc, retryErr>>
    /\ UNCHANGED <<transaction, autoAttemptU2F, factor, msg, verifyReq, ret, dispatched>>
    /\ client' = [nil |-> client.nil, domain |-> client.domain, prompts |-> client.prompts,
                  logger |-> client.logger, newTransaction |-> newTransaction']
    /\ UNCHANGED <<funcVars, running, parked>>

\* One iteration of backoff.Retry: run `operation` (one poll of the next link),
\* then return its result or go for another try.
operation ==
    /\ pc = "operation"
    /\ \E r \in sendRequest(transaction.Links.Next, nreq + 1, "poll") :
        LET res == sendTransactionRequest(r)
            e == operationError(res)
        IN
        /\ nreq' = nreq + 1
        /\ events' = Append(events, Post(transaction.Links.Next, verifyReq.StateToken,
                                         "FactorVerifyPush", ""))
        /\ newTransaction' = res.transaction
        /\ lastOutcome' = Outcome(res)
        /\ logs' = RequestLog(transaction.Links.Next,
                               FactorVerify("FactorVerifyPush", verifyReq.StateToken, <<>>), r)
        /\ IF e.err = NilError \/ e.permanent \/ NextBackOffStops(numTries)
           THEN /\ retryErr' = e.err
                /\ pc' = "afterRetry"
                /\ UNCHANGED numTries
           ELSE /\ numTries' = numTries + 1
                /\ UNCHANGED <<pc, retryErr>>
    /\ UNCHANGED <<transaction, autoAttemptU2F, factor, msg, verifyReq, ret, dispatched>>
    /\ UNCHANGED <<funcVars, clientVars>>

\* A handleFactorTypePush that returns a poll fault to the caller as a terminal error.
afterRetryFatal ==
    /\ pc = "afterRetry"
    /\ IF retryErr.type = "NonFatalAuthError"
       THEN \E r \in sendRequest(newTransaction.Links.Cancel, nreq + 1, "poll") :
            /\ nreq' = nreq + 1
            /\ events' = Append(events, Post(newTransaction.Links.Cancel, verifyReq.StateToken,
                                             "FactorVerifyPush", ""))
            /\ lastOutcome' = Outcome(sendTransactionRequest(r))
            /\ logs' = RequestLog(newTransaction.Links.Cancel,
                                   FactorVerify("FactorVerifyPush", verifyReq.StateToken, <<>>), r)
            /\ Return(0, retryErr)
            /\ UNCHANGED <<transaction, autoAttemptU2F, msg>>
       ELSE IF retryErr # NilError
       THEN /\ Return(0, TerminalError(retryErr.msg))
            /\ logs' = <<>>
            /\ UNCHANGED <<transaction, autoAttemptU2F, msg, nreq, events, lastOutcome>>
       ELSE /\ Recurse(newTransaction, FALSE)
            /\ logs' = <<>>
            /\ UNCHANGED <<msg, nreq, events, lastOutcome>>
    /\ UNCHANGED <<factor, newTransaction, verifyReq, numTries, retryErr, dispatched>>
    /\ UNCHANGED <<funcVars, clientVars>>

\* handleFactorTypePush after backoff.Retry returned.
afterRetry ==
    /\ pc = "afterRetry"
    /\ IF retryErr.type = "NonFatalAuthError"
       THEN \E r \in sendRequest(newTransaction.Links.Cancel, nreq + 1, "poll") :
            /\ nreq' = nreq + 1
            /\ events' = Append(events, Post(newTransaction.Links.Cancel, verifyReq.StateToken,
                                             "FactorVerifyPush", ""))
            /\ lastOutcome' = Outcome(sendTransactionRequest(r))
            /\ logs' = RequestLog(newTransaction.Links.Cancel,
                                   FactorVerify("FactorVerifyPush", verifyReq.StateToken, <<>>), r)
            /\ Return(0, retryErr)
            /\ UNCHANGED <<transaction, autoAttemptU2F, msg>>
       ELSE IF retryErr # NilError
       THEN /\ pc' = "cancelCurrentFactorWithErrorMessage"
            /\ msg' = retryErr.msg
            /\ logs' = <<>>
            /\ UNCHANGED <<transaction, autoAttemptU2F, ret, nreq, events, lastOutcome>>
       ELSE /\ Recurse(newTransaction, FALSE)
            /\ logs' = <<>>
            /\ UNCHANGED <<msg, nreq, events, lastOutcome>>
    /\ UNCHANGED <<factor, newTransaction, verifyReq, numTries, retryErr, dispatched>>
    /\ UNCHANGED <<funcVars, clientVars>>

(***************************************************************************)
(* The attempt                                                             *)
(***************************************************************************)
Next ==
    \/ Authenticate
    \/ handleAuthUserFlow
    \/ handleMFARequired
    \/ startMFA
    \/ handleMFAChallenge
    \/ cancelCurrentFactorWithErrorMessage
    \/ cancelCurrentFactor
    \/ handleFactorTypeU2F
    \/ handleFactorTypeCode
    \/ handleFactorTypePush
    \/ operation
    \/ afterRetry

Spec == Init /\ [][Next]_vars

\* An attempt whose calls all return: every prompt callback, every transport call
\* and with them every handler that is called goes on to its next step.
SpecReturning == Init /\ [][Next]_vars /\ WF_vars(Next)

(***************************************************************************)
(* api/factors.go: decoding a factor                                       *)
(***************************************************************************)
\* The raw value of the "profile" key of a factor object: the key is absent (no
\* bytes), or its value is null, an empty object, an object with the profile's
\* fields, or a JSON string.
PayloadAbsent == ""
PayloadNull == "null"
PayloadEmptyObject == "{}"
PayloadObject == "{\"credentialId\":\"c1\"}"
PayloadString == "\"text\""
Payloads == {PayloadAbsent, PayloadNull, PayloadEmptyObject, PayloadObject, PayloadString}

\* len(factor.Profile): the number of bytes of the raw payload.
PayloadLength(payload) ==
    CASE payload = PayloadAbsent -> 0
      [] payload = PayloadNull -> 4
      [] payload = PayloadEmptyObject -> 2
      [] payload = PayloadObject -> 21
      [] OTHER -> 6

\* json.Unmarshal of a raw payload into a profile struct: null and an object
\* decode (only an object with fields fills the struct), anything else is an error.
ProfileUnmarshal(payload) ==
    [ok |-> payload \in {PayloadNull, PayloadEmptyObject, PayloadObject},
     filled |-> payload = PayloadObject]

\* The kinds a server can name: the known ones and one the client does not know.
JsonFactorTypes == {knownFactors[i] : i \in 1..Len(knownFactors)} \cup {"email"}

\* The JSON text of a factor object (valid: it is a JSON object at all).
FactorJson(valid, id, kind, provider, payload, hasVerify, nonce) ==
    [valid |-> valid, id |-> id, factorType |-> kind, provider |-> provider,
     profile |-> payload, verify |-> IF hasVerify THEN Link(1, id) ELSE NoLink,
     nonce |-> nonce]

FactorJsons ==
    { FactorJson(TRUE, "f1", kind, "OKTA", payload, hasVerify, nonce) :
          kind \in JsonFactorTypes, payload \in Payloads, hasVerify \in BOOLEAN,
          nonce \in {"", "n1"} }
    \cup { FactorJson(FALSE, "f1", kind, "OKTA", PayloadObject, TRUE, "n1") :
          kind \in {FactorTypeSMS, "email"} }

\* api.Factor{}: the value UnmarshalJSON is called on.
ZeroFactor ==
    [Id |-> "", FactorType |-> "", Provider |-> "", Profile |-> "nil", ProfileFilled |-> FALSE,
     Links |-> [Verify |-> NoLink], Embedded |-> [Challenge |-> [Nonce |-> ""]]]

\* A switch of UnmarshalJSON that decodes the profile of a call factor as an SMS profile.
profileVariantCallAsSMS(kind) ==
    CASE kind = FactorTypeQuestion -> "Question"
      [] kind = FactorTypeSMS -> "SMS"
      [] kind = FactorTypeCall -> "SMS"
      [] kind \in {FactorTypeToken, FactorTypeTokenSoftwareTOTP, FactorTypeTokenHardware} -> "Token"
      [] kind = FactorTypeU2F -> "U2F"
      [] kind = FactorTypeWebAuthN -> "WebAuthN"
      [] OTHER -> "nil"

\* A switch of UnmarshalJSON whose default branch decodes a token profile.
profileVariantDefaultToken(kind) ==
    CASE kind = FactorTypeQuestion -> "Question"
      [] kind = FactorTypeSMS -> "SMS"
      [] kind = FactorTypeCall -> "Call"
      [] kind = FactorTypeU2F -> "U2F"
      [] kind = FactorTypeWebAuthN -> "WebAuthN"
      [] OTHER -> "Token"

\* switch f.FactorType { ... } of UnmarshalJSON: the profile struct a kind is
\* decoded into, "nil" for the default branch.
profileVariant(kind) ==
    CASE kind = FactorTypeQuestion -> "Question"
      [] kind = FactorTypeSMS -> "SMS"
      [] kind = FactorTypeCall -> "Call"
      [] kind \in {FactorTypeToken, FactorTypeTokenSoftwareTOTP, FactorTypeTokenHardware} -> "Token"
      [] kind = FactorTypeU2F -> "U2F"
      [] kind = FactorTypeWebAuthN -> "WebAuthN"
      [] OTHER -> "nil"

\* (f *Factor) UnmarshalJSON(data), called on a zero Factor: the error, and f after
\* the call.
UnmarshalJSON(data) ==
    IF ~data.valid
    THEN [err |-> TRUE, f |-> ZeroFactor]
    ELSE LET envelope ==
                 [ZeroFactor EXCEPT !.Id = data.id, !.FactorType = data.factorType,
                                    !.Provider = data.provider, !.Links.Verify = data.verify,
                                    !.Embedded.Challenge.Nonce = data.nonce]
         IN  IF PayloadLength(data.profile) = 0
             THEN [err |-> FALSE, f |-> envelope]
             ELSE IF profileVariant(data.factorType) = "nil"
             THEN [err |-> FALSE, f |-> envelope]
             ELSE [err |-> ~ProfileUnmarshal(data.profile).ok,
                   f |-> [envelope EXCEPT !.Profile = profileVariant(data.factorType),
                                          !.ProfileFilled = ProfileUnmarshal(data.profile).filled]]

(***************************************************************************)
(* The functions called on their own                                       *)
(***************************************************************************)
\* The longest factor list SupportedFactors is called with.
MaxFactors == 3

\* Factors of a list to filter: a few kinds, known and unknown, and two ids so
\* that a list can hold the same entry twice.
ListedFactors ==
    { Factor(1, fid, kind, "nil", TRUE) :
          fid \in {"f1", "f2"},
          kind \in {FactorTypeU2F, FactorTypeSMS, FactorTypeQuestion, "email"} }

FactorListsUpTo(n) == UNION { [1..k -> ListedFactors] : k \in 0..n }

\* Status codes of every class.
AllHttpStatuses == {100, 200, 201, 302, 400, 401, 403, 404, 429, 499, 500, 503}

\* What sendRequest can return to sendTransactionRequest.
SendRequestResults ==
    {TransportFailure}
    \cup { HttpResponse(s, b) :
              s \in AllHttpStatuses,
              b \in {ApiErrorBody, GarbageBody}
                    \cup { TransactionBody(t) : t \in RequiredTransactions(1) }
                    \cup { MistypedBody(t) : t \in RequiredTransactions(1) } }

(***************************************************************************)
(* Sorting a factor list by preference                                     *)
(***************************************************************************)
\* A preference list that ranks push first.
preferedFactorOrderPushFirst ==
    <<FactorTypePush, FactorTypeU2F, FactorTypeToken, FactorTypeTokenSoftwareTOTP,
      FactorTypeTokenHardware, FactorTypeSMS, FactorTypeCall, FactorTypeQuestion>>

\* preferedFactorOrder, in its order.
preferedFactorOrder ==
    <<FactorTypeU2F, FactorTypeToken, FactorTypeTokenSoftwareTOTP, FactorTypeTokenHardware,
      FactorTypePush, FactorTypeSMS, FactorTypeCall, FactorTypeQuestion>>

\* indexOfFactorType over preferedFactorOrder, 0-based, -1 when absent.
indexOfPreferedFactorType(factorType) ==
    IF \E i \in 1..Len(preferedFactorOrder) : preferedFactorOrder[i] = factorType
    THEN (CHOOSE i \in 1..Len(preferedFactorOrder) :
              /\ preferedFactorOrder[i] = factorType
              /\ \A j \in 1..(i - 1) : preferedFactorOrder[j] # factorType) - 1
    ELSE -1

\* string(iType): the bytes of a kind's name.
FactorTypeBytes(t) ==
    CASE t = FactorTypeU2F -> <<117, 50, 102>>
      [] t = FactorTypeToken -> <<116, 111, 107, 101, 110>>
      [] t = FactorTypeTokenSoftwareTOTP -> <<116, 111, 107, 101, 110, 58, 115, 111, 102, 116, 119, 97, 114, 101, 58, 116, 111, 116, 112>>
      [] t = FactorTypeTokenHardware -> <<116, 111, 107, 101, 110, 58, 104, 97, 114, 100, 119, 97, 114, 101>>
      [] t = FactorTypePush -> <<112, 117, 115, 104>>
      [] t = FactorTypeSMS -> <<115, 109, 115>>
      [] t = FactorTypeCall -> <<99, 97, 108, 108>>
      [] t = FactorTypeQuestion -> <<113, 117, 101, 115, 116, 105, 111, 110>>
      [] t = "unknown1" -> <<117, 110, 107, 110, 111, 119, 110, 49>>
      [] t = "unknown2" -> <<117, 110, 107, 110, 111, 119, 110, 50>>
      [] t = "email" -> <<101, 109, 97, 105, 108>>
      [] OTHER -> <<>>

\* strings.Compare(a, b) on the bytes of two strings: -1, 0 or 1.
RECURSIVE Compare(_, _)
Compare(a, b) ==
    IF a = <<>> /\ b = <<>> THEN 0
    ELSE IF a = <<>> THEN -1
    ELSE IF b = <<>> THEN 1
    ELSE IF Head(a) < Head(b) THEN -1
    ELSE IF Head(a) > Head(b) THEN 1
    ELSE Compare(Tail(a), Tail(b))

\* A Less without the fallback: two kinds missing from the list are never in order.
LessWithoutFallback(f, i, j) ==
    LET iIndex == indexOfPreferedFactorType(f[i].FactorType)
        jIndex == indexOfPreferedFactorType(f[j].FactorType)
    IN  IF iIndex # -1
        THEN IF jIndex = -1 THEN TRUE ELSE iIndex < jIndex
        ELSE FALSE

\* (f Factors) Less(i, j), positions counted from 1.
Less(f, i, j) ==
    LET iType == f[i].FactorType
        jType == f[j].FactorType
        iIndex == indexOfPreferedFactorType(iType)
        jIndex == indexOfPreferedFactorType(jType)
    IN  IF iIndex # -1
        THEN IF jIndex = -1 THEN TRUE ELSE iIndex < jIndex
        ELSE IF jIndex # -1
        THEN FALSE
        ELSE Compare(FactorTypeBytes(iType), FactorTypeBytes(jType)) = -1

\* (f Factors) Len()
FactorsLen(f) == Len(f)

\* (f Factors) Swap(i, j), positions counted from 1.
Swap(f, i, j) == [f EXCEPT ![i] = f[j], ![j] = f[i]]

\* The inner loop of the insertion sort: the entry at j moves down while it is
\* Less than the one before it.
RECURSIVE SinkFrom(_, _)
SinkFrom(f, j) ==
    IF j > 1 /\ Less(f, j, j - 1) THEN SinkFrom(Swap(f, j, j - 1), j - 1) ELSE f

\* The outer loop of the insertion sort, from position i on.
RECURSIVE InsertFrom(_, _)
InsertFrom(f, i) ==
    IF i > FactorsLen(f) THEN f ELSE InsertFrom(SinkFrom(f, i), i + 1)

\* sort.Sort(factors): a list of fewer than 12 entries is sorted by insertion,
\* through Len, Less and Swap.
Sort(f) == InsertFrom(f, 2)

\* Factors of a list to sort: every kind of the preference list, kinds missing
\* from it, and a second entry of one kind of each sort.
SortedFactors ==
    { Factor(1, "f1", kind, "nil", TRUE) :
          kind \in {preferedFactorOrder[i] : i \in 1..Len(preferedFactorOrder)}
                   \cup {"unknown1", "unknown2", "email"} }
    \cup { Factor(1, "f2", kind, "nil", TRUE) : kind \in {FactorTypeSMS, "unknown2"} }

SortedListsUpTo(n) == UNION { [1..k -> SortedFactors] : k \in 0..n }

\* The factor objects that decode without an error: only these reach the prompts,
\* the decode error of any other one ends the request that carried it.
DecodableFactorJsons == { d \in FactorJsons : ~UnmarshalJSON(d).err }

FunctionInputs ==
    { [fn |-> "UnmarshalJSON", data |-> d] : d \in FactorJsons }
    \cup { [fn |-> "SupportedFactors", data |-> l] : l \in FactorListsUpTo(MaxFactors) }
    \cup { [fn |-> "sendTransactionRequest", data |-> r] : r \in SendRequestResults }
    \cup { [fn |-> "Sort", data |-> l] : l \in SortedListsUpTo(MaxFactors) }
    \cup { [fn |-> "New", data |-> conf] : conf \in ClientConfigs }
    \cup { [fn |-> "apiFactorToPublicFactor", data |-> d] : d \in DecodableFactorJsons }

InitFunctions ==
    /\ FlowInit("")
    /\ input \in FunctionInputs
    /\ output = NoOutput
    /\ SingleAttempt

\* json.Unmarshal(data, &factor) for a factor object.
CallUnmarshalJSON ==
    /\ input.fn = "UnmarshalJSON"
    /\ ~output.returned
    /\ output' = [returned |-> TRUE, value |-> UnmarshalJSON(input.data)]
    /\ UNCHANGED <<input, flowVars, clientVars>>

\* factors.SupportedFactors()
CallSupportedFactors ==
    /\ input.fn = "SupportedFactors"
    /\ ~output.returned
    /\ output' = [returned |-> TRUE, value |-> SupportedFactors(input.data)]
    /\ UNCHANGED <<input, flowVars, clientVars>>

\* c.sendTransactionRequest(url, request): one call of sendRequest, then the mapping.
CallSendTransactionRequest ==
    /\ input.fn = "sendTransactionRequest"
    /\ ~output.returned
    /\ nreq' = nreq + 1
    /\ lastOutcome' = Outcome(sendTransactionRequest(input.data))
    /\ output' = [returned |-> TRUE, value |-> sendTransactionRequest(input.data)]
    /\ UNCHANGED <<input, pc, transaction, autoAttemptU2F, factor, msg, newTransaction,
                   verifyReq, numTries, retryErr, ret, events, dispatched, logs>>
    /\ UNCHANGED clientVars

\* sort.Sort(factors)
CallSort ==
    /\ input.fn = "Sort"
    /\ ~output.returned
    /\ output' = [returned |-> TRUE, value |-> Sort(input.data)]
    /\ UNCHANGED <<input, flowVars, clientVars>>

\* New(conf)
CallNew ==
    /\ input.fn = "New"
    /\ ~output.returned
    /\ output' = [returned |-> TRUE, value |-> New(input.data)]
    /\ UNCHANGED <<input, flowVars, clientVars>>

\* apiFactorToPublicFactor(factor) for a factor decoded from a server answer.
CallApiFactorToPublicFactor ==
    /\ input.fn = "apiFactorToPublicFactor"
    /\ ~output.returned
    /\ output' = [returned |-> TRUE,
                  value |-> apiFactorToPublicFactor(UnmarshalJSON(input.data).f)]
    /\ UNCHANGED <<input, flowVars, clientVars>>

NextFunctions ==
    \/ CallUnmarshalJSON
    \/ CallSupportedFactors
    \/ CallSendTransactionRequest
    \/ CallSort
    \/ CallNew
    \/ CallApiFactorToPublicFactor

SpecFunctions == InitFunctions /\ [][NextFunctions]_vars

(***************************************************************************)
(* Two attempts on one client                                              *)
(***************************************************************************)
\* The arguments and locals of the attempt that has the processor: they live on
\* the stack of its goroutine (the closure of the push handler captures locals of
\* its own call).
Attempt ==
    [pc |-> pc,
     transaction |-> transaction,
     autoAttemptU2F |-> autoAttemptU2F,
     factor |-> factor,
     msg |-> msg,
     newTransaction |-> newTransaction,
     verifyReq |-> verifyReq,
     numTries |-> numTries,
     retryErr |-> retryErr,
     ret |-> ret,
     nreq |-> nreq,
     events |-> events,
     lastOutcome |-> lastOutcome,
     dispatched |-> dispatched,
     logs |-> logs]

\* Polls an attempt has made when the two-attempt model takes it up.
PollsMade == MaxRetries - 2

\* A push challenge, response number id, with the given links and factor result.
PushChallenge(id, result, links) ==
    Txn(id, StateMFAChallenge, FALSE, result, <<>>,
        Factor(id, "f1", FactorTypePush, "nil", FALSE), links)

\* An attempt inside backoff.Retry of handleFactorTypePush: the challenge was
\* dispatched, the server answered the dispatch with `answer`, and each of k polls
\* of the answer's next link was answered with "waiting".
Polling(challenge, answer, k) ==
    LET waiting == PushChallenge(answer.id + k, FactorResultWaiting, AllLinks) IN
    [pc |-> "operation", transaction |-> answer, autoAttemptU2F |-> FALSE,
     factor |-> NoFactor, msg |-> <<>>, newTransaction |-> waiting,
     verifyReq |-> [StateToken |-> challenge.StateToken], numTries |-> k,
     retryErr |-> NilError, ret |-> NoReturn, nreq |-> answer.id + k,
     events |-> << Post(challenge.Links.Next, challenge.StateToken, "FactorVerifyPush", ""),
                   Prompt("VerifyPush", <<>>, <<>>) >>
                \o [i \in 1..k |-> Post(answer.Links.Next, challenge.StateToken,
                                        "FactorVerifyPush", "")],
     lastOutcome |-> "transaction",
     dispatched |-> [at |-> challenge.id, transaction |-> challenge],
     logs |-> RequestLog(answer.Links.Next,
                         FactorVerify("FactorVerifyPush", challenge.StateToken, <<>>),
                         HttpResponse(200, TransactionBody(waiting)))]

\* The attempt that runs first: its challenge and the answer to the dispatch carry
\* every link.
FirstAttempt ==
    Polling(PushChallenge(MaxFollowUps - 1, "", AllLinks),
            PushChallenge(MaxFollowUps, FactorResultWaiting, AllLinks), PollsMade)

\* The attempt that waits first: its challenge had no prev link, and the answer to
\* its dispatch no cancel link.
SecondAttempt ==
    Polling(PushChallenge(MaxFollowUps - 1, "", {"next", "cancel"}),
            PushChallenge(MaxFollowUps, FactorResultWaiting, {"next", "prev"}), PollsMade)

\* Two attempts on the same client, each polling a push challenge of its own: the
\* first one runs, the second one waits.
InitConcurrent ==
    /\ LET first == FirstAttempt IN
       /\ pc = first.pc
       /\ transaction = first.transaction
       /\ autoAttemptU2F = first.autoAttemptU2F
       /\ factor = first.factor
       /\ msg = first.msg
       /\ newTransaction = first.newTransaction
       /\ verifyReq = first.verifyReq
       /\ numTries = first.numTries
       /\ retryErr = first.retryErr
       /\ ret = first.ret
       /\ nreq = first.nreq
       /\ events = first.events
       /\ lastOutcome = first.lastOutcome
       /\ dispatched = first.dispatched
       /\ logs = first.logs
    /\ parked = SecondAttempt
    /\ running = 1
    /\ client = TestClient
    /\ input = NoInput
    /\ output = NoOutput

\* The scheduler takes the processor from the running attempt and gives it to the
\* one that waits (if that one has not returned yet).
Yield ==
    /\ running \in {1, 2}
    /\ parked.pc # "done"
    /\ running' = 3 - running
    /\ parked' = Attempt
    /\ pc' = parked.pc
    /\ transaction' = parked.transaction
    /\ autoAttemptU2F' = parked.autoAttemptU2F
    /\ factor' = parked.factor
    /\ msg' = parked.msg
    /\ newTransaction' = parked.newTransaction
    /\ verifyReq' = parked.verifyReq
    /\ numTries' = parked.numTries
    /\ retryErr' = parked.retryErr
    /\ ret' = parked.ret
    /\ nreq' = parked.nreq
    /\ events' = parked.events
    /\ lastOutcome' = parked.lastOutcome
    /\ dispatched' = parked.dispatched
    /\ logs' = parked.logs
    /\ UNCHANGED <<client, funcVars>>

\* The steps of two attempts polling a push challenge, interleaved in every way.
NextConcurrent ==
    \/ operation
    \/ afterRetry
    \/ cancelCurrentFactorWithErrorMessage
    \/ cancelCurrentFactor
    \/ handleAuthUserFlow
    \/ Yield

SpecConcurrent == InitConcurrent /\ [][NextConcurrent]_vars

(***************************************************************************)
(* Properties                                                              *)
(***************************************************************************)
\* The statuses handleAuthUserFlow answers with a terminal failure of their own.
TerminalStatuses ==
    {StatePasswordExpired, StateRecovery, StateLockedOut, StateMFAEnroll, StateMFAEnrollActivate}

\* The statuses handleAuthUserFlow has a case for.
HandledStatuses == TerminalStatuses \cup {StateSuccess, StateMFARequired, StateMFAChallenge}

\* A fault of the last sendTransactionRequest: a transport (or decode, or status)
\* error, or an API-level rejection.
LastRequestFailed == lastOutcome \in {"err", "apiError"}

\* The poll of the push handler: a POST of the FactorVerifyPush request to the next
\* link of the transaction the handler holds.
PollPost == Post(transaction.Links.Next, verifyReq.StateToken, "FactorVerifyPush", "")

\* The events of a push handler that polled n times: the dispatch POST, the
\* VerifyPush notification, then n polls and nothing else.
PolledTimes(n) ==
    /\ Len(events) = 2 + n
    /\ events[1].op = "POST"
    /\ events[2].op = "VerifyPush"
    /\ \A i \in 3..Len(events) : events[i] = PollPost

\* C1: Authenticate returns (token, nil) or ("", error): a nil error only when the
\* last transaction processed (the one dispatched after the last request) has status
\* SUCCESS, the token then being that transaction's sessionToken; with a non-nil
\* error the token is empty.
C1_ReturnContract ==
    pc = "done" =>
        /\ ret.err = NilError =>
              /\ dispatched.at = nreq
              /\ dispatched.transaction.Status = StateSuccess
              /\ ret.token = dispatched.transaction.SessionToken
        /\ ret.err # NilError => ret.token = 0

\* A session token returned after a second factor was asked for.
C1_Witness ==
    /\ pc = "done"
    /\ ret.err = NilError
    /\ ret.token # 0
    /\ nreq >= 3

\* C2: dispatching a transaction whose status is PASSWORD_EXPIRED, RECOVERY,
\* LOCKED_OUT, MFA_ENROLL or MFA_ENROLL_ACTIVATE returns a TerminalError with an
\* empty token at once: no request is sent and no prompt is called.
C2_TerminalStatuses ==
    [][(pc = "handleAuthUserFlow" /\ transaction.Status \in TerminalStatuses) =>
           /\ pc' = "done"
           /\ ret'.err.type = "TerminalError"
           /\ ret'.token = 0
           /\ nreq' = nreq
           /\ events' = events]_vars

\* MFA_ENROLL_ACTIVATE, answered to a follow-up request, ended the attempt.
C2_Witness ==
    /\ pc = "done"
    /\ dispatched.at = nreq
    /\ nreq >= 2
    /\ dispatched.transaction.Status = StateMFAEnrollActivate
    /\ ret.err.type = "TerminalError"

\* C3: a status handleAuthUserFlow has no case for (PASSWORD_WARN, the empty
\* status, an unknown string) takes the default branch: the flow ends with the
\* terminal "Unknown user state" error naming the status, and nothing is sent or
\* prompted.
C3_UnknownStatus ==
    [][(pc = "handleAuthUserFlow" /\ transaction.Status \notin HandledStatuses) =>
           /\ pc' = "done"
           /\ ret' = [token |-> 0,
                      err |-> TerminalError(<<"Unknown user state %s, contact your administrator for assistance.",
                                              transaction.Status>>)]
           /\ nreq' = nreq
           /\ events' = events]_vars

\* PASSWORD_WARN ended the attempt with the unknown-state error.
C3_Witness ==
    /\ pc = "done"
    /\ dispatched.at = nreq
    /\ dispatched.transaction.Status = StatePasswordWarn
    /\ ret.err.type = "TerminalError"
    /\ ret.err.msg[2] = StatePasswordWarn

\* C4 as stated: an invocation of the dispatcher that does not recurse returns a
\* session token or a terminal error.
C4_Original ==
    (pc = "done" /\ dispatched.at > 0) => ret.err.type \in {"nil", "TerminalError"}

\* C4 amended: an invocation of the dispatcher that returns, returns a session
\* token, or an empty token with a terminal error, with the error of ChooseFactor
\* (status MFA_REQUIRED) or with the non-fatal error of the push poll (status
\* MFA_CHALLENGE, push); one that recurses does so on the transaction obtained from
\* a request sent during that invocation, never on the transaction it was given.
C4_DispatcherOutcome ==
    /\ pc = "handleAuthUserFlow" =>
          /\ nreq > dispatched.at
          /\ transaction.id \in {0, nreq}
          /\ dispatched.at > 0 => transaction # dispatched.transaction
    /\ (pc = "done" /\ dispatched.at > 0) =>
          \/ ret.err = NilError
          \/ ret.token = 0 /\ ret.err.type = "TerminalError"
          \/ /\ ret.token = 0
             /\ ret.err = PlainError(PromptErrorMessage)
             /\ dispatched.transaction.Status = StateMFARequired
          \/ /\ ret.token = 0
             /\ ret.err.type = "NonFatalAuthError"
             /\ dispatched.transaction.Status = StateMFAChallenge
             /\ dispatched.transaction.Factor.FactorType = FactorTypePush

\* The dispatcher recursed from a challenge back into factor selection.
C4_Witness ==
    /\ pc = "handleAuthUserFlow"
    /\ dispatched.transaction.Status = StateMFAChallenge
    /\ transaction.Status = StateMFARequired

\* C5: when no poll is answered with SUCCESS or REJECTED the poller polls exactly
\* 10 times, then returns the timeout error after one POST to the cancel link.
C5_PollCap ==
    (pc = "done" /\ ret.err = NonFatalAuthError(timeoutErrorMessage)) =>
        /\ Len(events) = 2 + 10 + 1
        /\ \A i \in 3..(Len(events) - 1) : events[i] = PollPost
        /\ events[Len(events)] =
               Post(newTransaction.Links.Cancel, verifyReq.StateToken, "FactorVerifyPush", "")

\* C6: the poller stops at the first poll answered with SUCCESS; after k polls
\* that asked to wait it has then sent k+1 polls, all to the next link, none to the
\* cancel or prev link, and the attempt returns the session token of that SUCCESS
\* transaction without another request.
C6_PushSuccess ==
    [][/\ (pc = "operation" /\ nreq' = nreq + 1 /\ lastOutcome' = "transaction"
              /\ newTransaction'.Status = StateSuccess) =>
           (pc' = "afterRetry" /\ retryErr' = NilError)
       /\ (pc = "afterRetry" /\ retryErr = NilError) =>
           /\ newTransaction.Status = StateSuccess
           /\ PolledTimes(numTries + 1)
           /\ pc' = "handleAuthUserFlow"
           /\ transaction' = newTransaction
           /\ nreq' = nreq
           /\ events' = events
       /\ (pc = "handleAuthUserFlow" /\ newTransaction.id # 0) =>
           /\ pc' = "done"
           /\ ret' = [token |-> newTransaction.SessionToken, err |-> NilError]
           /\ nreq' = nreq
           /\ events' = events]_vars

\* A push approved at the third poll: the token is returned after three polls.
C6_Witness ==
    /\ pc = "done"
    /\ ret.err = NilError
    /\ ret.token # 0
    /\ Len(events) = 5
    /\ events[2].op = "VerifyPush"

\* C7: a poll answered with factorResult REJECTED ends the polling; after k polls
\* that asked to wait there were k+1 polls (three for k = 2), then exactly one POST
\* to the cancel link of the rejected transaction, and whatever that POST yields
\* the attempt returns the non-fatal "Authentication Rejected" error and no token.
C7_PushRejected ==
    [][/\ (pc = "operation" /\ nreq' = nreq + 1 /\ lastOutcome' = "transaction"
              /\ newTransaction'.Status # StateSuccess
              /\ newTransaction'.FactorResult = FactorResultRejected) =>
           (pc' = "afterRetry" /\ retryErr' = NonFatalAuthError(<<"Authentication Rejected">>))
       /\ (pc = "afterRetry" /\ lastOutcome = "transaction"
              /\ newTransaction.Status # StateSuccess
              /\ newTransaction.FactorResult = FactorResultRejected) =>
           /\ PolledTimes(numTries + 1)
           /\ events' = Append(events, Post(newTransaction.Links.Cancel, verifyReq.StateToken,
                                            "FactorVerifyPush", ""))
           /\ nreq' = nreq + 1
           /\ pc' = "done"
           /\ ret' = [token |-> 0, err |-> NonFatalAuthError(<<"Authentication Rejected">>)]]_vars

\* Scenario C: two polls waited, the third was rejected, the cancel POST failed.
C7_Witness ==
    /\ pc = "done"
    /\ ret = [token |-> 0, err |-> NonFatalAuthError(<<"Authentication Rejected">>)]
    /\ numTries = 2
    /\ Len(events) = 6
    /\ events[6].url = newTransaction.Links.Cancel
    /\ lastOutcome = "err"

C9_DispatchFailureBackStep ==
    [][(pc = "cancelCurrentFactor" /\ retryErr = NilError /\ LastRequestFailed
            /\ dispatched.transaction.Factor.FactorType = FactorTypePush
            /\ dispatched.transaction.Links.Next # NoLink
            /\ dispatched.transaction.Links.Prev # NoLink) =>
           events' = Append(events, Post(dispatched.transaction.Links.Prev,
                                         dispatched.transaction.StateToken,
                                         "FactorVerify", ""))]_vars

\* C10: an API-level rejection of the verify POST is shown once through
\* PresentUserError, the driver goes on with the resulting transaction, and the
\* attempt does not end in an error because of it.
C10_SoftFailure ==
    [][/\ (pc = "startMFA" /\ lastOutcome' = "apiError") =>
           /\ UserErrorsPresented(events') = UserErrorsPresented(events) + 1
           /\ pc' = "handleAuthUserFlow"
       /\ (pc = "handleAuthUserFlow" /\ lastOutcome = "apiError") =>
           ~(pc' = "done" /\ ret'.err # NilError)]_vars

\* C11: no message passed to the debug logger contains the password of the
\* authentication request, whatever the path of Authenticate.
C11_PasswordNeverLogged ==
    \A i \in 1..Len(logs) : \A j \in 1..Len(logs[i]) : logs[i][j] \notin Passwords

\* The kinds of a list of factors, in its order.
FactorTypes(fs) == [i \in 1..Len(fs) |-> fs[i].FactorType]

\* C12: scenario A.  When the password step answers MFA_REQUIRED with the factors
\* [SMS, U2F, TOTP] and the presence check finds no hardware key, ChooseFactor is
\* called with the factors in the order [U2F, TOTP, SMS].
C12_ScenarioA ==
    \A i \in 1..Len(events) :
        (/\ events[i].op = "ChooseFactor"
         /\ dispatched.at = 1
         /\ FactorTypes(dispatched.transaction.Factors)
                = <<FactorTypeSMS, FactorTypeU2F, FactorTypeTokenSoftwareTOTP>>) =>
            FactorTypes(events[i].list)
                = <<FactorTypeU2F, FactorTypeTokenSoftwareTOTP, FactorTypeSMS>>

\* C13: in an MFA_CHALLENGE transaction every numeric-code factor kind (software
\* token, hardware token, generic token, SMS, call) is handed to the code handler,
\* which asks for the code through VerifyCode; none goes to the "not supported
\* yet" cancel path.
C13_CodeKinds ==
    [][(/\ pc = "handleMFAChallenge"
        /\ transaction.Factor.FactorType \in
               {FactorTypeTokenSoftwareTOTP, FactorTypeTokenHardware, FactorTypeToken,
                FactorTypeSMS, FactorTypeCall}) =>
           (pc' = "handleFactorTypeCode" /\ msg' = msg)]_vars

\* How many times a sequence of events called prompts.CheckU2FPresence.
PresenceChecked(es) == Cardinality({i \in 1..Len(es) : es[i].op = "CheckU2FPresence"})

\* C14: every recursion into the dispatcher after a follow-up POST (verify, next,
\* prev, or the poll of a push) passes auto-select off, and CheckU2FPresence is
\* called only while the transaction answered to the initial username/password
\* POST is handled, before any other request was sent.
C14_AutoSelectOnce ==
    [][/\ (pc' = "handleAuthUserFlow" /\ pc # "Authenticate" /\ pc # "handleAuthUserFlow") =>
           autoAttemptU2F' = FALSE
       /\ (pc = "handleAuthUserFlow" /\ nreq > 1) => autoAttemptU2F = FALSE
       /\ PresenceChecked(events') > PresenceChecked(events) =>
           (pc = "handleMFARequired" /\ nreq = 1 /\ dispatched.at = 1)]_vars

\* Factor selection for a later transaction that lists a hardware key: the user
\* was asked at once, without a presence check.
C14_Witness ==
    /\ pc = "startMFA"
    /\ dispatched.at > 1
    /\ dispatched.transaction.Status = StateMFARequired
    /\ \E i \in 1..Len(dispatched.transaction.Factors) :
           /\ dispatched.transaction.Factors[i].FactorType = FactorTypeU2F
           /\ dispatched.transaction.Factors[i].Profile = "U2F"
    /\ Len(events) = 1
    /\ events[1].op = "ChooseFactor"

C16_Original ==
    (pc = "done" /\ ret.err # NilError) =>
        ret.err.type \in {"TerminalError", "NonFatalAuthError"}

\* C16 amended: every non-nil error Authenticate returns is of exactly one of four
\* kinds: a TerminalError; a NonFatalAuthError (rejected or timed out); the plain
\* error "Failed to authenticate", returned when the server rejects the first
\* request with an API error; or the error of the ChooseFactor prompt, returned as
\* it is.  No other error is returned, and the token is empty.
C16_ErrorCategories ==
    (pc = "done" /\ ret.err # NilError) =>
        /\ ret.token = 0
        /\ \/ ret.err.type = "TerminalError"
           \/ ret.err \in {NonFatalAuthError(<<"Authentication Rejected">>),
                           NonFatalAuthError(timeoutErrorMessage)}
           \/ /\ ret.err = PlainError(<<"Failed to authenticate">>)
              /\ nreq = 1
              /\ lastOutcome = "apiError"
           \/ /\ ret.err = PlainError(PromptErrorMessage)
              /\ events[Len(events)].op = "ChooseFactor"

\* The server rejected the credentials: Authenticate returned the plain error.
C16_Witness ==
    /\ pc = "done"
    /\ nreq = 1
    /\ lastOutcome = "apiError"
    /\ ret = [token |-> 0, err |-> PlainError(<<"Failed to authenticate">>)]

\* C17: a NonFatalAuthError is returned only by the push handler after its poll
\* loop ended with a rejection or because the backoff policy stopped it; a wrong
\* code, a failed or declined hardware key and a rejected next POST make the code
\* and U2F handlers cancel the factor or step back, without returning, and what
\* the cancel and back-step return is never a NonFatalAuthError.
C17_NonFatalOnlyFromPush ==
    [][/\ (ret' # ret /\ ret'.err.type = "NonFatalAuthError") =>
           /\ pc = "afterRetry"
           /\ dispatched.transaction.Factor.FactorType = FactorTypePush
           /\ ret'.err = retryErr
           /\ \/ /\ retryErr = NonFatalAuthError(<<"Authentication Rejected">>)
                 /\ newTransaction.FactorResult = FactorResultRejected
              \/ /\ retryErr = NonFatalAuthError(timeoutErrorMessage)
                 /\ NextBackOffStops(numTries)
                 /\ newTransaction.Status # StateSuccess
       /\ (/\ pc \in {"handleFactorTypeCode", "handleFactorTypeU2F"}
           /\ \/ nreq' = nreq + 1 /\ lastOutcome' = "apiError"
              \/ nreq' = nreq) =>
           /\ pc' \in {"cancelCurrentFactor", "cancelCurrentFactorWithErrorMessage"}
           /\ ret' = ret
       /\ pc \in {"cancelCurrentFactor", "cancelCurrentFactorWithErrorMessage"} =>
           \/ pc' \in {"cancelCurrentFactor", "handleAuthUserFlow"} /\ ret' = ret
           \/ pc' = "done" /\ ret'.err.type = "TerminalError"]_vars

\* The backoff policy stopped a push poll loop that was never answered: the
\* attempt ended with the non-fatal timeout.
C17_Witness ==
    /\ pc = "done"
    /\ ret.err = NonFatalAuthError(timeoutErrorMessage)
    /\ dispatched.transaction.Factor.FactorType = FactorTypePush
    /\ NextBackOffStops(numTries)
    /\ newTransaction.FactorResult # FactorResultRejected

\* C18 as stated: decoding a factor of any known kind, push included, whose
\* profile payload is an object yields a profile variant, the one of its kind.
C18_Original ==
    (/\ input.fn = "UnmarshalJSON"
     /\ output.returned
     /\ input.data.valid
     /\ input.data.profile = PayloadObject
     /\ indexOfFactorType(input.data.factorType) # -1) =>
        /\ ~output.value.err
        /\ output.value.f.Profile # "nil"
        /\ output.value.f.ProfileFilled

\* C18 amended: decoding a factor whose payload is present yields the variant of
\* its kind for the kinds that have one (question -> Question, sms -> SMS, call ->
\* Call, the three token kinds -> Token, u2f -> U2F, webauthn -> WebAuthN), filled
\* and without error when the payload is an object of the profile's fields; a
\* push factor has no variant: its profile stays unset and there is no error.
C18_DecodeVariant ==
    (/\ input.fn = "UnmarshalJSON"
     /\ output.returned
     /\ input.data.valid
     /\ PayloadLength(input.data.profile) > 0) =>
        LET kind == input.data.factorType
            f == output.value.f
        IN  /\ kind = FactorTypeQuestion => f.Profile = "Question"
            /\ kind = FactorTypeSMS => f.Profile = "SMS"
            /\ kind = FactorTypeCall => f.Profile = "Call"
            /\ kind \in {FactorTypeToken, FactorTypeTokenSoftwareTOTP, FactorTypeTokenHardware} =>
                   f.Profile = "Token"
            /\ kind = FactorTypeU2F => f.Profile = "U2F"
            /\ kind = FactorTypeWebAuthN => f.Profile = "WebAuthN"
            /\ (kind # FactorTypePush /\ indexOfFactorType(kind) # -1
                    /\ input.data.profile = PayloadObject) =>
                   ~output.value.err /\ f.ProfileFilled
            /\ kind = FactorTypePush =>
                   ~output.value.err /\ f.Profile = "nil" /\ ~f.ProfileFilled
            /\ f.FactorType = kind

\* A call factor with a profile object was decoded into the Call variant.
C18_Witness ==
    /\ input.fn = "UnmarshalJSON"
    /\ output.returned
    /\ input.data.factorType = FactorTypeCall
    /\ input.data.profile = PayloadObject
    /\ output.value.f.Profile = "Call"
    /\ output.value.f.ProfileFilled
    /\ ~output.value.err

C20_SupportedSubsequence ==
    (input.fn = "SupportedFactors" /\ output.returned) =>
        LET l == input.data
            out == output.value
            known == {knownFactors[i] : i \in 1..Len(knownFactors)}
            kept == {i \in 1..Len(l) : l[i].FactorType \in known}
            nth(k) == CHOOSE i \in kept : Cardinality({j \in kept : j < i}) = k - 1
        IN  /\ Len(out) = Cardinality(kept)
            /\ \A k \in 1..Len(out) : out[k] = l[nth(k)]

\* A list with the same supported entry twice around an unknown kind, and another
\* supported entry: both copies are kept, in place.
C20_Witness ==
    /\ input.fn = "SupportedFactors"
    /\ output.returned
    /\ Len(input.data) = MaxFactors
    /\ input.data[1].FactorType = FactorTypeSMS
    /\ input.data[2].FactorType = "email"
    /\ input.data[3] = input.data[1]
    /\ output.value = <<input.data[1], input.data[1]>>

\* C21: sort.Sort leaves a rearrangement of the list in which every factor of a
\* kind of the preference list stands before every factor of another kind, and the
\* listed kinds stand in the order u2f, the token kinds, push, sms, call, question.
C21_PreferenceOrder ==
    (input.fn = "Sort" /\ output.returned) =>
        LET l == input.data
            out == output.value
            rank(t) == CASE t = FactorTypeU2F -> 0
                         [] t \in {FactorTypeToken, FactorTypeTokenSoftwareTOTP,
                                   FactorTypeTokenHardware} -> 1
                         [] t = FactorTypePush -> 2
                         [] t = FactorTypeSMS -> 3
                         [] t = FactorTypeCall -> 4
                         [] t = FactorTypeQuestion -> 5
                         [] OTHER -> 6
        IN  /\ Len(out) = Len(l)
            /\ \A x \in SortedFactors :
                   Cardinality({i \in 1..Len(out) : out[i] = x})
                       = Cardinality({i \in 1..Len(l) : l[i] = x})
            /\ \A i, j \in 1..Len(out) :
                   i < j => rank(out[i].FactorType) <= rank(out[j].FactorType)

\* An unknown kind, a question and a hardware key, listed worst first, came out
\* best first.
C21_Witness ==
    /\ input.fn = "Sort"
    /\ output.returned
    /\ Len(input.data) = 3
    /\ input.data[1].FactorType = "unknown1"
    /\ input.data[2].FactorType = FactorTypeQuestion
    /\ input.data[3].FactorType = FactorTypeU2F
    /\ output.value = <<input.data[3], input.data[2], input.data[1]>>

\* C22 as stated: in the sorted list the factors of kinds missing from the
\* preference list stand in the order they had in the input.
C22_Original ==
    (input.fn = "Sort" /\ output.returned) =>
        LET IsUnrecognized(x) == indexOfPreferedFactorType(x.FactorType) = -1
        IN  SelectSeq(output.value, IsUnrecognized) = SelectSeq(input.data, IsUnrecognized)

\* C22 amended: in the sorted list the factors of kinds missing from the
\* preference list stand in the byte-wise order of their kind names, whatever
\* order they had in the input.
C22_UnrecognizedByName ==
    (input.fn = "Sort" /\ output.returned) =>
        LET out == output.value
            IsUnrecognized(x) == indexOfPreferedFactorType(x.FactorType) = -1
        IN  \A i, j \in 1..Len(out) :
                (i < j /\ IsUnrecognized(out[i]) /\ IsUnrecognized(out[j])) =>
                    Compare(FactorTypeBytes(out[i].FactorType),
                            FactorTypeBytes(out[j].FactorType)) \in {-1, 0}

\* unknown2 listed before unknown1 came out after it.
C22_Witness ==
    /\ input.fn = "Sort"
    /\ output.returned
    /\ Len(input.data) = 2
    /\ input.data[1].FactorType = "unknown2"
    /\ input.data[2].FactorType = "unknown1"
    /\ output.value = <<input.data[2], input.data[1]>>

\* C23: New makes the client's root URL of the configured domain: the domain's
\* own scheme when it has one (https or http), https otherwise, then the host, and
\* nothing of a path after the host.
C23_DomainNormalized ==
    (input.fn = "New" /\ output.returned /\ ~output.value.client.nil) =>
        LET d == input.data.OktaDomain
            hasScheme == d[1] \in {"https://", "http://"}
            scheme == IF hasScheme THEN d[1] ELSE "https://"
            host == IF hasScheme THEN d[2] ELSE d[1]
        IN  output.value.client.domain = <<scheme, host>>

\* C24: New returns an error and no client when OktaDomain is the empty string or
\* Prompts is nil, and a client holding the prompts, with no error, otherwise.
C24_RequiredConfig ==
    (input.fn = "New" /\ output.returned) =>
        IF input.data.OktaDomain = <<>> \/ input.data.Prompts = "nil"
        THEN /\ output.value.client = NilClient
             /\ output.value.err # NilError
        ELSE /\ ~output.value.client.nil
             /\ output.value.client.prompts = input.data.Prompts
             /\ output.value.err = NilError

\* A configuration with a domain and no prompts was refused.
C24_Witness ==
    /\ input.fn = "New"
    /\ output.returned
    /\ input.data.OktaDomain = <<"test.okta.com">>
    /\ input.data.Prompts = "nil"
    /\ output.value.client.nil
    /\ output.value.err = PlainError(<<"ClientConfig.Prompts can't be nil">>)

\* C25: cancelCurrentFactor sends one POST, to the prev link of the transaction it
\* was given and with that transaction's stateToken; when the POST is answered
\* with a transaction it recurses into the dispatcher on that transaction (the
\* one of this request, or the zero transaction when the answer holds none of a
\* transaction's fields) with auto-select off; when the POST fails in transport or is rejected by the API it
\* returns a terminal error and no token, and nothing is requested after that.
C25_CancelProtocol ==
    [][/\ pc = "cancelCurrentFactor" =>
           /\ nreq' = nreq + 1
           /\ events' = Append(events, Post(transaction.Links.Prev, transaction.StateToken,
                                            "FactorVerify", ""))
           /\ lastOutcome' = "transaction" =>
                  /\ pc' = "handleAuthUserFlow"
                  /\ transaction'.id \in {0, nreq'}
                  /\ transaction' # transaction
                  /\ autoAttemptU2F' = FALSE
                  /\ ret' = ret
           /\ lastOutcome' \in {"err", "apiError"} =>
                  /\ pc' = "done"
                  /\ ret'.token = 0
                  /\ ret'.err.type = "TerminalError"
       /\ pc # "done"]_vars

\* A code prompt was cancelled, the server answered the POST to the prev link with
\* the factor list, and the dispatcher is about to handle it.
C25_Witness ==
    /\ pc = "handleAuthUserFlow"
    /\ dispatched.transaction.Status = StateMFAChallenge
    /\ Len(events) = 3
    /\ events[1].op = "VerifyCode"
    /\ events[2].op = "PresentUserError"
    /\ events[3] = Post(dispatched.transaction.Links.Prev, dispatched.transaction.StateToken,
                        "FactorVerify", "")
    /\ dispatched.transaction.Links.Prev # NoLink
    /\ transaction.id = nreq
    /\ transaction.Status = StateMFARequired
    /\ autoAttemptU2F = FALSE

\* C26: when ChooseFactor returns an error, handleMFARequired returns that error
\* with no token: no request is sent, ChooseFactor was called once, and nothing
\* happens after the return.
C26_ChooseFactorError ==
    [][/\ (/\ pc = "handleMFARequired"
           /\ Len(events') > Len(events)
           /\ events'[Len(events')].op = "ChooseFactor"
           /\ events'[Len(events')].result = "error") =>
              /\ pc' = "done"
              /\ ret' = [token |-> 0, err |-> PlainError(PromptErrorMessage)]
              /\ nreq' = nreq
              /\ Cardinality({i \in 1..Len(events') : events'[i].op = "ChooseFactor"}) = 1
       /\ (pc = "done" /\ ret.err = PlainError(PromptErrorMessage)) => pc' = "done"]_vars

\* The user aborted the choice of a factor: the attempt is over with that error.
C26_Witness ==
    /\ pc = "done"
    /\ ret = [token |-> 0, err |-> PlainError(PromptErrorMessage)]
    /\ events[Len(events)].op = "ChooseFactor"
    /\ events[Len(events)].result = "error"
    /\ nreq = 1

\* C27: the factor startMFA is called with, whose verify link it POSTs, is an
\* entry of the supported factors of the transaction; when ChooseFactor returns
\* an id that no supported factor has, handleMFARequired returns a terminal error
\* naming that id and sends nothing.
C27_ChosenFactorSupported ==
    [][/\ pc' = "startMFA" =>
              \E i \in 1..Len(SupportedFactors(transaction'.Factors)) :
                  SupportedFactors(transaction'.Factors)[i] = factor'
       /\ pc = "startMFA" =>
              /\ nreq' = nreq + 1
              /\ events'[Len(events) + 1] =
                     Post(factor.Verify, transaction.StateToken, "FactorVerify", "")
       /\ (/\ pc = "handleMFARequired"
           /\ Len(events') > Len(events)
           /\ events'[Len(events')].op = "ChooseFactor"
           /\ events'[Len(events')].result # "error"
           /\ \A i \in 1..Len(SupportedFactors(transaction.Factors)) :
                  SupportedFactors(transaction.Factors)[i].Id # events'[Len(events')].result) =>
              /\ pc' = "done"
              /\ ret' = [token |-> 0,
                         err |-> TerminalError(<<"Factor with id %q was not found",
                                                 events'[Len(events')].result>>)]
              /\ nreq' = nreq]_vars

\* ChooseFactor answered with a factor that was not offered: the attempt ended
\* with the terminal error naming its id, after the one request of the password.
C27_Witness ==
    /\ pc = "done"
    /\ ret.err = TerminalError(<<"Factor with id %q was not found", "f9">>)
    /\ events[Len(events)].op = "ChooseFactor"
    /\ events[Len(events)].result = "f9"
    /\ nreq = 1

\* C28: when, with auto-select on, CheckU2FPresence returns true for a supported
\* hardware-key factor, handleMFARequired calls startMFA with that factor at once,
\* the next request is the POST to its verify link, and ChooseFactor is not called
\* for the transaction; this happens on the first dispatch only, and every
\* presence check carries an empty Challenge.
C28_AutoSelectPresentKey ==
    [][/\ (/\ pc = "handleMFARequired"
           /\ Len(events') > Len(events)
           /\ events'[Len(events')].op = "CheckU2FPresence"
           /\ events'[Len(events')].result = "true") =>
              /\ autoAttemptU2F
              /\ dispatched.at = 1
              /\ pc' = "startMFA"
              /\ factor'.FactorType = FactorTypeU2F
              /\ \E i \in 1..Len(SupportedFactors(transaction.Factors)) :
                     SupportedFactors(transaction.Factors)[i] = factor'
              /\ nreq' = nreq
              /\ \A i \in 1..Len(events') : events'[i].op # "ChooseFactor"
       /\ (/\ pc = "startMFA"
           /\ events[Len(events)].op = "CheckU2FPresence") =>
              /\ nreq' = nreq + 1
              /\ events'[Len(events) + 1] =
                     Post(factor.Verify, transaction.StateToken, "FactorVerify", "")
              /\ \A i \in 1..Len(events') : events'[i].op # "ChooseFactor"
              /\ pc' \in {"handleAuthUserFlow", "done"}
       /\ \A i \in 1..Len(events') :
              events'[i].op = "CheckU2FPresence" => events'[i].arg = <<"">>]_vars

\* The second hardware key of the list was found present after the first was
\* not, and its verify link was POSTed without asking the user.
C28_Witness ==
    /\ pc = "handleAuthUserFlow"
    /\ nreq = 2
    /\ Len(events) = 3
    /\ events[1] = Answered("CheckU2FPresence", <<"">>, <<>>, "false")
    /\ events[2] = Answered("CheckU2FPresence", <<"">>, <<>>, "true")
    /\ events[3] = Post(factor.Verify, dispatched.transaction.StateToken, "FactorVerify", "")
    /\ factor.FactorType = FactorTypeU2F
    /\ factor.Verify # NoLink

C30_ScenarioB ==
    [][/\ (/\ pc = "handleFactorTypeCode"
           /\ transaction.Factor.FactorType = FactorTypeTokenSoftwareTOTP
           /\ nreq' = nreq + 1) =>
              /\ events' = events
                   \o <<Prompt("VerifyCode", <<>>, <<apiFactorToPublicFactor(transaction.Factor)>>),
                        Post(transaction.Links.Next, transaction.StateToken,
                             "FactorVerifyCode", PassCode)>>
              /\ lastOutcome' = "transaction" =>
                     /\ pc' = "handleAuthUserFlow"
                     /\ transaction'.id \in {0, nreq'}
                     /\ ret' = ret
       /\ (/\ pc = "handleAuthUserFlow"
           /\ transaction.Status = StateSuccess) =>
              /\ pc' = "done"
              /\ ret' = [token |-> transaction.SessionToken, err |-> NilError]
              /\ nreq' = nreq
              /\ events' = events
       /\ (pc = "done" /\ ret.err = NilError) => pc' = "done"]_vars

\* The password step answered with a TOTP challenge, the code was accepted: two
\* requests in all, and the session token of the second answer is returned.
C30_Witness ==
    /\ pc = "done"
    /\ nreq = 2
    /\ ret.err = NilError
    /\ ret.token # 0
    /\ ret.token = dispatched.transaction.SessionToken
    /\ dispatched.transaction.id = 2
    /\ dispatched.transaction.Status = StateSuccess
    /\ Len(events) = 2
    /\ events[1].op = "VerifyCode"
    /\ events[1].list[1].FactorType = FactorTypeTokenSoftwareTOTP
    /\ events[2].op = "POST"
    /\ events[2].url = Link(1, "next")
    /\ events[2].stateToken = 1
    /\ events[2].code = PassCode

\* The Profile* fields of a public factor.
PublicProfileFields == {"ProfileQuestion", "ProfileSMS", "ProfileCall", "ProfileToken"}

\* C32: the public factor made of a decoded factor has at most one Profile* field
\* set, a set field is the one of the factor's kind (question: ProfileQuestion,
\* sms: ProfileSMS, call: ProfileCall, the token kinds: ProfileToken), and it has
\* no field for links, the embedded challenge or the profile of a hardware key.
C32_PublicFactor ==
    (input.fn = "apiFactorToPublicFactor" /\ output.returned) =>
        LET p == output.value
            kind == input.data.factorType
        IN  /\ Cardinality({n \in PublicProfileFields : p[n]}) <= 1
            /\ p.ProfileQuestion => kind = FactorTypeQuestion
            /\ p.ProfileSMS => kind = FactorTypeSMS
            /\ p.ProfileCall => kind = FactorTypeCall
            /\ p.ProfileToken =>
                   kind \in {FactorTypeToken, FactorTypeTokenSoftwareTOTP, FactorTypeTokenHardware}
            /\ DOMAIN p = {"Id", "FactorType"} \cup PublicProfileFields
            /\ p.Id = input.data.id
            /\ p.FactorType = kind

\* An enrolled hardware key with a verify link and a challenge was converted: no
\* Profile* field is set; so was an SMS factor, with ProfileSMS set.
C32_Witness ==
    /\ input.fn = "apiFactorToPublicFactor"
    /\ output.returned
    /\ \/ /\ input.data.factorType = FactorTypeU2F
          /\ input.data.profile = PayloadObject
          /\ input.data.verify # NoLink
          /\ input.data.nonce # ""
          /\ \A n \in PublicProfileFields : ~output.value[n]
       \/ /\ input.data.factorType = FactorTypeSMS
          /\ input.data.profile = PayloadObject
          /\ output.value.ProfileSMS

C34_ProfileMismatch ==
    [][/\ (pc = "handleFactorTypeU2F" /\ transaction.Factor.Profile # "U2F") =>
              /\ pc' = "cancelCurrentFactorWithErrorMessage"
              /\ msg' = unexpectedErrorMessage
              /\ events' = events
              /\ nreq' = nreq
              /\ transaction' = transaction
              /\ ret' = ret
       /\ (pc = "cancelCurrentFactorWithErrorMessage" /\ msg = unexpectedErrorMessage) =>
              /\ pc' = "cancelCurrentFactor"
              /\ events' = Append(events, Prompt("PresentUserError", unexpectedErrorMessage, <<>>))
              /\ transaction' = transaction
       /\ (pc = "handleMFAChallenge" /\ transaction.Factor.FactorType = FactorTypeU2F) =>
              pc' = "handleFactorTypeU2F"
       /\ pc \in {"handleMFAChallenge", "handleFactorTypeU2F"} => pc' # "panic"]_vars

\* The challenge of a hardware key without a profile was cancelled: the message
\* was shown, VerifyU2F was not called, and the stateToken went to the prev link.
C34_Witness ==
    /\ transaction.Status = StateMFAChallenge
    /\ transaction.Factor.FactorType = FactorTypeU2F
    /\ transaction.Factor.Profile = "nil"
    /\ pc = "cancelCurrentFactor"
    /\ events = <<Prompt("PresentUserError", unexpectedErrorMessage, <<>>)>>

\* How many times a sequence of events called prompts.VerifyPush.
PushNotifications(es) == Cardinality({i \in 1..Len(es) : es[i].op = "VerifyPush"})

\* C35: the push handler calls VerifyPush once per push challenge, after the
\* dispatch POST succeeded and before the first poll POST, and not at all when the
\* dispatch POST failed (transport error or API rejection).
C35_PushNotification ==
    [][/\ pc = "handleFactorTypePush" =>
              /\ PushNotifications(events) = 0
              /\ nreq' = nreq + 1
              /\ events'[Len(events) + 1] = Post(transaction.Links.Next, transaction.StateToken,
                                                 "FactorVerifyPush", "")
              /\ IF lastOutcome' = "transaction"
                 THEN /\ events' = events \o <<events'[Len(events) + 1],
                                               Prompt("VerifyPush", <<>>, <<>>)>>
                      /\ pc' = "operation"
                 ELSE /\ PushNotifications(events') = 0
                      /\ pc' = "cancelCurrentFactorWithErrorMessage"
       /\ pc \in {"operation", "afterRetry"} =>
              /\ PushNotifications(events) = 1
              /\ events[2].op = "VerifyPush"
              /\ events[1].op = "POST"
              /\ \A i \in 1..Len(events) : events[i].op = "POST" => (i = 1 \/ i > 2)
       /\ pc # "handleFactorTypePush" => PushNotifications(events') <= PushNotifications(events)
       /\ PushNotifications(events') <= 1]_vars

\* A push was dispatched, the user was told once, and three polls followed.
C35_Witness ==
    /\ pc = "operation"
    /\ PolledTimes(3)
    /\ PushNotifications(events) = 1

\* C36: every poll POST of the push handler goes to the link the dispatch POST
\* went to, the next link of the MFA_CHALLENGE transaction under challenge, and
\* carries the same stateToken, whatever links the answer to the dispatch holds.
C36_SamePollLink ==
    (pc \in {"operation", "afterRetry"}) =>
        \A i \in 3..Len(events) :
            /\ events[i].op = "POST"
            /\ events[i].url = events[1].url
            /\ events[i].stateToken = events[1].stateToken

\* C37: handling an MFA_REQUIRED transaction with auto-select permitted never
\* crashes: for every factor list, one with a hardware-key factor without a
\* profile included, handleMFARequired goes on to startMFA or returns.
C37_NeverCrashes ==
    [][(pc = "handleMFARequired" /\ autoAttemptU2F) => pc' \in {"startMFA", "done"}]_vars

\* C38: the table of supported kinds and the dispatch of a challenge agree: a
\* challenge is cancelled as "not supported yet" only for a kind that
\* SupportedFactors filters out, never for one that is offered to ChooseFactor.
C38_OfferedKindsHandled ==
    (pc = "cancelCurrentFactorWithErrorMessage"
        /\ msg = <<"Sorry, that factor is not supported yet.">>) =>
        indexOfFactorType(transaction.Factor.FactorType) = -1

\* One call of sendTransactionRequest set one of its three results: a transaction
\* alone, an API error alone, or a terminal error alone.
OneOutcome(res) ==
    /\ ~(res.apiError # NilError /\ res.err # NilError)
    /\ res.apiError # NilError => res.apiError.type = "APIError"
    /\ res.err # NilError => res.err.type = "TerminalError"

\* C40 as stated: sendTransactionRequest returns one kind of outcome per call, and
\* whenever the API error or the error is non-nil the transaction returned with it
\* is the empty transaction.
C40_Original ==
    (input.fn = "sendTransactionRequest" /\ output.returned) =>
        /\ OneOutcome(output.value)
        /\ (output.value.apiError # NilError \/ output.value.err # NilError) =>
               output.value.transaction = EmptyTransaction

\* C40, amended: sendTransactionRequest returns one kind of outcome per call; the
\* transaction returned with an API error or an error is the empty transaction,
\* except after a 200 answer whose body failed to decode, where it holds the
\* fields that were decoded.
C40_OneOutcomePerCall ==
    (input.fn = "sendTransactionRequest" /\ output.returned) =>
        LET r == input.data
            res == output.value
            undecoded200 == ~r.err /\ r.status = 200 /\ res.err # NilError
        IN  /\ OneOutcome(res)
            /\ ((res.apiError # NilError \/ res.err # NilError) /\ ~undecoded200) =>
                   res.transaction = EmptyTransaction
            /\ undecoded200 => res.transaction = r.body.transaction

\* A 200 answer with the fields of an MFA_REQUIRED transaction and a value of the
\* wrong type came back as a terminal error together with the fields decoded.
C40_Witness ==
    /\ input.fn = "sendTransactionRequest"
    /\ output.returned
    /\ input.data.status = 200
    /\ input.data.body.kind = "mistyped"
    /\ output.value.err = TerminalError(unexpectedErrorMessage)
    /\ output.value.apiError = NilError
    /\ output.value.transaction.Status = StateMFARequired

\* C39: when every prompt callback and every transport call returns, and the
\* server answers MFA_REQUIRED or MFA_CHALLENGE finitely many times, the attempt
\* returns in the end, a token or an error.
C39_EventuallyReturns == <>(pc = "done")

\* C31: two authentication attempts running concurrently on the same OktaClient
\* do not interfere. No step of an attempt changes a field of the client; a step
\* of the running attempt leaves the arguments and locals of the waiting attempt
\* as they are; and when the scheduler switches, the resumed attempt continues
\* from exactly the state it was suspended in, so what an attempt sends, prompts
\* and returns is decided by its own responses and answers in every interleaving.
C31_NoInterference ==
    [][/\ client' = client
       /\ running' = running => parked' = parked
       /\ running' # running =>
            /\ Attempt' = parked
            /\ parked' = Attempt]_vars

\* Both attempts have polled, in turns, and have returned, one with a session
\* token and the other with an error, on a client that is as New made it.
C31_Witness ==
    /\ running \in {1, 2}
    /\ pc = "done"
    /\ parked.pc = "done"
    /\ ret.err = NilError
    /\ parked.ret.err # NilError
    /\ nreq > MaxFollowUps
    /\ parked.nreq > MaxFollowUps
    /\ client = TestClient

====
